---- MODULE Spec2Model ----
(***************************************************************************)
(* Model of backend/llm_gateway.py: LLMGateway.completion, the five        *)
(* provider adapters and the total_requests counter.                       *)
(*                                                                         *)
(* A completion call is a walk over the provider chain.  Each caller has a *)
(* program counter:                                                        *)
(*   idle -> gate -> adapter -> (incr_read -> incr_write -> extract |      *)
(*                               extract -> incr_read -> incr_write)       *)
(*        -> build -> returned -> idle                                     *)
(* with "raised" entered from adapter/extract and left through the         *)
(* `except Exception` handler of completion.                               *)
(***************************************************************************)
EXTENDS Integers, Sequences, FiniteSets, TLC

\* --------------------------------------------------------------------------
\* Bounds of the model
\* --------------------------------------------------------------------------

\* completion calls are started only while total_requests is below this cap
MaxRequests == 2

\* longest conversation passed to completion
MaxTurns == 2

\* threads that may call completion on the shared gateway
Callers == {1, 2}

\* the caller of the sequential specification
SeqCallers == {1}

\* --------------------------------------------------------------------------
\* Python values
\* --------------------------------------------------------------------------

\* os.getenv returns None or a str
None == [set |-> FALSE, val |-> ""]

Str(s) == [set |-> TRUE, val |-> s]

\* variant: `if key != "":` instead of `if key:`
TruthyNotEmptyString(v) == v # Str("")

\* truth value of an Optional[str]: None and "" are falsy
Truthy(v) == v.set /\ v.val # ""

\* variant: `a if a is not None else b`
PyOrNotNone(a, b) == IF a.set THEN a ELSE b

\* Python `a or b`
PyOr(a, b) == IF Truthy(a) THEN a ELSE b

\* --------------------------------------------------------------------------
\* Model identifiers (character sequences, so that `in` and lower() are
\* computed on them)
\* --------------------------------------------------------------------------

GROQ_MODEL == <<"l","l","a","m","a","-","3",".","3","-","7","0","b","-","v","e","r","s","a","t","i","l","e">>

TOGETHER_DEFAULT_MODEL == <<"m","e","t","a","-","l","l","a","m","a","/","L","l","a","m","a","-","3",".","3","-","7","0","B","-","I","n","s","t","r","u","c","t","-","T","u","r","b","o">>

GEMINI_MODEL == <<"g","e","m","i","n","i","-","p","r","o">>

OPENAI_MODEL == <<"g","p","t","-","4","o","-","m","i","n","i">>

HF_MODEL == <<"m","i","s","t","r","a","l","a","i","/","M","i","s","t","r","a","l","-","7","B","-","I","n","s","t","r","u","c","t","-","v","0",".","2">>

NONE_MODEL == <<"n","o","n","e">>

UpperCase == {"A","B","C","D","E","F","G","H","I","J","K","L","M","N","O","P","Q","R","S","T","U","V","W","X","Y","Z"}

LowerOf == [ch \in UpperCase |->
    CASE ch = "A" -> "a" [] ch = "B" -> "b" [] ch = "C" -> "c" [] ch = "D" -> "d"
      [] ch = "E" -> "e" [] ch = "F" -> "f" [] ch = "G" -> "g" [] ch = "H" -> "h"
      [] ch = "I" -> "i" [] ch = "J" -> "j" [] ch = "K" -> "k" [] ch = "L" -> "l"
      [] ch = "M" -> "m" [] ch = "N" -> "n" [] ch = "O" -> "o" [] ch = "P" -> "p"
      [] ch = "Q" -> "q" [] ch = "R" -> "r" [] ch = "S" -> "s" [] ch = "T" -> "t"
      [] ch = "U" -> "u" [] ch = "V" -> "v" [] ch = "W" -> "w" [] ch = "X" -> "x"
      [] ch = "Y" -> "y" [] ch = "Z" -> "z"]

\* str.lower()
Lower(s) == [i \in 1..Len(s) |-> IF s[i] \in UpperCase THEN LowerOf[s[i]] ELSE s[i]]

\* `sub in s` on strings
Contains(sub, s) ==
    \E i \in 1..(Len(s) - Len(sub) + 1) : SubSeq(s, i, i + Len(sub) - 1) = sub

\* variant: the test made without lower()
TogetherModelCaseSensitive(model) ==
    IF ~Contains(<<"l","l","a","m","a">>, model) /\ ~Contains(<<"c","o","d","e">>, model)
    THEN TOGETHER_DEFAULT_MODEL
    ELSE model

\* _call_together: "Use a good code model"
TogetherModel(model) ==
    IF ~Contains(<<"l","l","a","m","a">>, Lower(model)) /\ ~Contains(<<"c","o","d","e">>, Lower(model))
    THEN TOGETHER_DEFAULT_MODEL
    ELSE model

\* --------------------------------------------------------------------------
\* Environment and provider chain
\* --------------------------------------------------------------------------

EnvVars == {"GROQ_API_KEY", "TOGETHER_API_KEY", "GEMINI_API_KEY", "GOOGLE_API_KEY",
            "HUGGINGFACE_API_KEY", "HF_API_KEY", "OPENAI_API_KEY"}

\* the value a variable holds when the deployment sets it to a real key
KeyOf == [v \in EnvVars |->
    CASE v = "GROQ_API_KEY" -> "gsk-groq"
      [] v = "TOGETHER_API_KEY" -> "tgr-key"
      [] v = "GEMINI_API_KEY" -> "gem-key"
      [] v = "GOOGLE_API_KEY" -> "goo-key"
      [] v = "HUGGINGFACE_API_KEY" -> "hf-long"
      [] v = "HF_API_KEY" -> "hf-short"
      [] v = "OPENAI_API_KEY" -> "sk-open"]

\* values a variable takes in the sequential specification
SeqEnvValues(v) == {None, Str(KeyOf[v])}

\* variant: the together block placed before the groq block
ChainTogetherFirst == <<"together", "groq", "gemini", "huggingface", "openai">>

\* the order of the five `if <key>:` blocks of completion
Chain == <<"groq", "together", "gemini", "huggingface", "openai">>

Providers == {"groq", "together", "gemini", "huggingface", "openai"}

\* the os.getenv expression that gates each provider
GetKey(p, e) ==
    CASE p = "groq" -> e["GROQ_API_KEY"]
      [] p = "together" -> e["TOGETHER_API_KEY"]
      [] p = "gemini" -> PyOr(e["GEMINI_API_KEY"], e["GOOGLE_API_KEY"])
      [] p = "huggingface" -> PyOr(e["HUGGINGFACE_API_KEY"], e["HF_API_KEY"])
      [] p = "openai" -> e["OPENAI_API_KEY"]

\* --------------------------------------------------------------------------
\* Exceptions
\* --------------------------------------------------------------------------

NoExc == "NoExc"

\* direct base class of each exception class an adapter raises
BaseOf(cls) ==
    CASE cls = "Exception" -> "BaseException"
      [] cls = "ImportError" -> "Exception"
      [] cls = "APIError" -> "Exception"
      [] cls = "OSError" -> "Exception"
      [] cls = "TimeoutError" -> "OSError"
      [] cls = "HTTPError" -> "OSError"
      [] cls = "LookupError" -> "Exception"
      [] cls = "IndexError" -> "LookupError"
      [] cls = "AttributeError" -> "Exception"
      [] cls = "ValueError" -> "Exception"
      [] OTHER -> "BaseException"

RECURSIVE IsSubclass(_, _)
IsSubclass(cls, base) ==
    IF cls = base THEN TRUE
    ELSE IF cls = "BaseException" THEN FALSE
    ELSE IsSubclass(BaseOf(cls), base)

\* variant: `except OSError as e:`
HandlerClassNarrow == "OSError"

\* the class named by the five `except Exception as e:` clauses of completion
HandlerClass == "Exception"

Catches(cls) == IsSubclass(cls, HandlerClass)

\* exceptions raised before the provider has replied: import of the client
\* library, client construction, the request itself (timeout, HTTP status),
\* and for huggingface raise_for_status() and response.json()
CallExceptions(p) ==
    IF p = "huggingface"
    THEN {"ImportError", "TimeoutError", "HTTPError", "ValueError"}
    ELSE {"ImportError", "APIError", "TimeoutError"}

\* --------------------------------------------------------------------------
\* Native replies
\* --------------------------------------------------------------------------

Message(t) == [role |-> "assistant", has_content |-> TRUE, content |-> t]

\* a message object lacking the content attribute
BadMessage == [role |-> "assistant", has_content |-> FALSE, content |-> ""]

Item(t) == [is_dict |-> TRUE, has_text |-> TRUE, generated_text |-> t]

\* {"error": ...}-style element without generated_text
ItemNoText == [is_dict |-> TRUE, has_text |-> FALSE, generated_text |-> ""]

\* a list element that is not a dict
ItemStr == [is_dict |-> FALSE, has_text |-> FALSE, generated_text |-> ""]

\* one record shape for every provider; unused fields hold defaults
Reply(shape, choices, text, blocked, items, has_text) ==
    [shape |-> shape, choices |-> choices, text |-> text, blocked |-> blocked,
     items |-> items, has_text |-> has_text]

NoReply == Reply("none", <<>>, "", FALSE, <<>>, FALSE)

\* response.choices of the groq / together / openai SDK
ChatReplies ==
    { Reply("chat", ch, "", FALSE, <<>>, FALSE) :
        ch \in { <<>>, <<Message("hello")>>, <<Message("")>>,
                 <<Message("ok"), Message("hello")>>, <<BadMessage>> } }

\* GenerateContentResponse: .text raises ValueError when the candidate is blocked
GeminiReplies ==
    { Reply("gemini", <<>>, "hello", FALSE, <<>>, FALSE),
      Reply("gemini", <<>>, "", TRUE, <<>>, FALSE) }

\* response.json() of the inference API: a list, a dict, or another JSON value
HFReplies ==
    { Reply("list", <<>>, "", FALSE, it, FALSE) :
        it \in { <<>>, <<Item("hello")>>, <<Item("ok"), Item("hello")>>,
                 <<ItemNoText>>, <<ItemStr>> } }
    \cup { Reply("dict", <<>>, "hello", FALSE, <<>>, TRUE),
           Reply("dict", <<>>, "", FALSE, <<>>, FALSE),
           Reply("scalar", <<>>, "", FALSE, <<>>, FALSE) }

NativeReplies(p) ==
    CASE p \in {"groq", "together", "openai"} -> ChatReplies
      [] p = "gemini" -> GeminiReplies
      [] p = "huggingface" -> HFReplies

\* str(result) of a parsed JSON value
StrOf(r) ==
    CASE r.shape = "list" -> IF Len(r.items) = 0 THEN "[]" ELSE "[...]"
      [] r.shape = "dict" -> "{...}"
      [] OTHER -> "scalar"

\* outcome of reading the text out of a native reply
Extracted(ok, cls, role, text) == [ok |-> ok, cls |-> cls, role |-> role, text |-> text]

\* response.choices[0].message.content (and .role for openai)
ExtractChat(r) ==
    IF Len(r.choices) = 0 THEN Extracted(FALSE, "IndexError", "", "")
    ELSE IF ~r.choices[1].has_content THEN Extracted(FALSE, "AttributeError", "", "")
    ELSE Extracted(TRUE, NoExc, r.choices[1].role, r.choices[1].content)

\* response.text
ExtractGemini(r) ==
    IF r.blocked THEN Extracted(FALSE, "ValueError", "", "")
    ELSE Extracted(TRUE, NoExc, "assistant", r.text)

\* variant: result[-1] instead of result[0]
ExtractHFLast(r) ==
    IF r.shape = "list" /\ Len(r.items) > 0
    THEN IF ~r.items[Len(r.items)].is_dict THEN Extracted(FALSE, "AttributeError", "", "")
         ELSE Extracted(TRUE, NoExc, "assistant",
                        IF r.items[Len(r.items)].has_text
                        THEN r.items[Len(r.items)].generated_text ELSE "")
    ELSE IF r.shape = "dict"
    THEN Extracted(TRUE, NoExc, "assistant", IF r.has_text THEN r.text ELSE StrOf(r))
    ELSE Extracted(TRUE, NoExc, "assistant", StrOf(r))

\* "Handle different response formats"
ExtractHF(r) ==
    IF r.shape = "list" /\ Len(r.items) > 0
    THEN IF ~r.items[1].is_dict THEN Extracted(FALSE, "AttributeError", "", "")
         ELSE Extracted(TRUE, NoExc, "assistant",
                        IF r.items[1].has_text THEN r.items[1].generated_text ELSE "")
    ELSE IF r.shape = "dict"
    THEN Extracted(TRUE, NoExc, "assistant", IF r.has_text THEN r.text ELSE StrOf(r))
    ELSE Extracted(TRUE, NoExc, "assistant", StrOf(r))

Extract(p, r) ==
    CASE p \in {"groq", "together", "openai"} -> ExtractChat(r)
      [] p = "gemini" -> ExtractGemini(r)
      [] p = "huggingface" -> ExtractHF(r)

\* --------------------------------------------------------------------------
\* Responses
\* --------------------------------------------------------------------------

Response(role, content, provider, model) ==
    [choices |-> << [message |-> [role |-> role, content |-> content]] >>,
     provider |-> provider, model |-> model]

\* the value of `result` before an adapter has returned
NoResult == [choices |-> <<>>, provider |-> "<unset>", model |-> <<>>]

\* variant: a bare error dict without choices
NoProviderResponseBare == [choices |-> <<>>, provider |-> "none", model |-> NONE_MODEL]

\* the dict returned under "# No API available"
NoProviderResponse ==
    Response("assistant",
             "Error: No LLM API key configured. Please set GROQ_API_KEY, TOGETHER_API_KEY, HUGGINGFACE_API_KEY, or OPENAI_API_KEY environment variable.",
             "none", NONE_MODEL)

\* the 'model' entry of each adapter's returned dict
ModelOf(p, hint) ==
    CASE p = "groq" -> GROQ_MODEL
      [] p = "together" -> TogetherModel(hint)
      [] p = "gemini" -> GEMINI_MODEL
      [] p = "huggingface" -> HF_MODEL
      [] p = "openai" -> OPENAI_MODEL

\* the dict each adapter returns
AdapterResponse(p, x, hint) ==
    Response(IF p = "openai" THEN x.role ELSE "assistant", x.text, p, ModelOf(p, hint))

\* variant: `if result and result['choices'][0]['message']['content']:`
ResultHasContent(r) == r # NoResult /\ r.choices[1].message.content # ""

\* `if result:` on a dict
ResultTruthy(r) == r # NoResult

\* model hints passed by callers
ModelHints == { TOGETHER_DEFAULT_MODEL, <<"g","p","t","-","4">>, NONE_MODEL }

\* Optional[int]: None or an int
NoInt == [set |-> FALSE, val |-> 0]

SomeInt(n) == [set |-> TRUE, val |-> n]

\* the literal of `max_tokens or 2000`
DefaultMaxTokens == 2000

\* variant: `min(max_tokens or 2000, 2000)`
TokensCapped(mt) ==
    IF mt.set /\ mt.val # 0 /\ mt.val < DefaultMaxTokens THEN mt.val ELSE DefaultMaxTokens

\* `max_tokens or 2000`: None and 0 are falsy
TokensOrDefault(mt) == IF mt.set /\ mt.val # 0 THEN mt.val ELSE DefaultMaxTokens

\* a chat turn; content is a character sequence
Turn(role, content) == [role |-> role, content |-> content]

\* the conversation of the callers of the sequential specification
DefaultConversation ==
    << Turn("system", <<"b","e"," ","b","r","i","e","f">>), Turn("user", <<"h","i">>) >>

Requests == [model : ModelHints, max_tokens : {NoInt}, messages : {DefaultConversation}]

\* variant: every turn rendered as its bare content
GeminiPieceUnmarked(msg) == msg.content \o <<"\n">>

\* f"Instructions: {msg['content']}\n\n" for a system turn, f"{msg['content']}\n" otherwise
GeminiPiece(msg) ==
    IF msg.role = "system"
    THEN <<"I","n","s","t","r","u","c","t","i","o","n","s",":"," ">> \o msg.content \o <<"\n", "\n">>
    ELSE msg.content \o <<"\n">>

\* the `for msg in messages: prompt += ...` loop of _call_gemini
RECURSIVE GeminiPrompt(_)
GeminiPrompt(msgs) ==
    IF Len(msgs) = 0 THEN <<>>
    ELSE GeminiPrompt(SubSeq(msgs, 1, Len(msgs) - 1)) \o GeminiPiece(msgs[Len(msgs)])

\* f"[INST] {msg['content']} [/INST]\n" for system and user turns, f"{msg['content']}\n" otherwise
HFPiece(msg) ==
    IF msg.role = "system" \/ msg.role = "user"
    THEN <<"[","I","N","S","T","]"," ">> \o msg.content \o <<" ","[","/","I","N","S","T","]">> \o <<"\n">>
    ELSE msg.content \o <<"\n">>

\* the `for msg in messages: prompt += ...` loop of _call_huggingface
RECURSIVE HFPrompt(_)
HFPrompt(msgs) ==
    IF Len(msgs) = 0 THEN <<>>
    ELSE HFPrompt(SubSeq(msgs, 1, Len(msgs) - 1)) \o HFPiece(msgs[Len(msgs)])

\* what an adapter hands to its provider
NativeRequest(model, max_tokens, messages, prompt) ==
    [model |-> model, max_tokens |-> max_tokens, messages |-> messages, prompt |-> prompt]

NoSent == NativeRequest(<<>>, 0, <<>>, <<>>)

\* the arguments of client.chat.completions.create / generate_content / requests.post
Sent(p, r) ==
    CASE p = "groq" ->
            NativeRequest(GROQ_MODEL, TokensOrDefault(r.max_tokens), r.messages, <<>>)
      [] p = "together" ->
            NativeRequest(TogetherModel(r.model), TokensOrDefault(r.max_tokens), r.messages, <<>>)
      [] p = "gemini" ->
            NativeRequest(GEMINI_MODEL, TokensOrDefault(r.max_tokens), <<>>, GeminiPrompt(r.messages))
      [] p = "huggingface" ->
            NativeRequest(HF_MODEL, TokensOrDefault(r.max_tokens), <<>>, HFPrompt(r.messages))
      [] p = "openai" ->
            NativeRequest(OPENAI_MODEL, TokensOrDefault(r.max_tokens), r.messages, <<>>)

\* --------------------------------------------------------------------------
\* Text: the characters of a str, and the str methods and regular expressions
\* the consumers of the gateway apply to it
\* --------------------------------------------------------------------------

\* the characters of each content string a response of the model can carry
Chars(s) ==
    CASE
         s = "hello" -> <<"h","e","l","l","o">>
      [] s = "ok" -> <<"o","k">>
      [] s = "" -> <<>>
      [] s = "[]" -> <<"[","]">>
      [] s = "[...]" -> <<"[",".",".",".","]">>
      [] s = "{...}" -> <<"{",".",".",".","}">>
      [] s = "scalar" -> <<"s","c","a","l","a","r">>
      [] s = "{\"steps\": []}" -> <<"{","\"","s","t","e","p","s","\"",":"," ","[","]","}">>
      [] s = "Trace: {\"steps\": []} ok" -> <<"T","r","a","c","e",":"," ","{","\"","s","t","e","p","s","\"",":"," ","[","]","}"," ","o","k">>
      [] s = "{oops}" -> <<"{","o","o","p","s","}">>
      [] s = "} {" -> <<"}"," ","{">>
      [] OTHER -> <<"E","r","r","o","r",":"," ","N","o"," ","L","L","M"," ","A","P","I"," ","k","e","y"," ","c","o","n","f","i","g","u","r","e","d","."," ","P","l","e","a","s","e"," ","s","e","t"," ","G","R","O","Q","_","A","P","I","_","K","E","Y",","," ","T","O","G","E","T","H","E","R","_","A","P","I","_","K","E","Y",","," ","H","U","G","G","I","N","G","F","A","C","E","_","A","P","I","_","K","E","Y",","," ","o","r"," ","O","P","E","N","A","I","_","A","P","I","_","K","E","Y"," ","e","n","v","i","r","o","n","m","e","n","t"," ","v","a","r","i","a","b","l","e",".">>

WhiteSpace == {" ", "\n", "\t", "\r"}

Digits == {"0","1","2","3","4","5","6","7","8","9"}

LowerCase == { LowerOf[u] : u \in UpperCase }

\* the characters \w matches
WordChars == UpperCase \cup LowerCase \cup Digits \cup {"_"}

UpperOf == [ch \in LowerCase |-> CHOOSE u \in UpperCase : LowerOf[u] = ch]

\* str.upper()
Upper(s) == [i \in 1..Len(s) |-> IF s[i] \in LowerCase THEN UpperOf[s[i]] ELSE s[i]]

\* the least element of a non-empty set of positions
MinOf(S) == CHOOSE i \in S : \A k \in S : i <= k

MaxOf(S) == CHOOSE i \in S : \A k \in S : i >= k

\* str.strip(): from the first to the last character that is no white space
Strip(s) ==
    LET solid == { i \in 1..Len(s) : s[i] \notin WhiteSpace }
    IN IF solid = {} THEN <<>> ELSE SubSeq(s, MinOf(solid), MaxOf(solid))

\* str.startswith
StartsWith(s, pre) == Len(s) >= Len(pre) /\ SubSeq(s, 1, Len(pre)) = pre

\* first position at or after j where sub occurs in s, 0 when there is none
FindSub(sub, s, j) ==
    LET hits == { i \in j..(Len(s) - Len(sub) + 1) : SubSeq(s, i, i + Len(sub) - 1) = sub }
    IN IF hits = {} THEN 0 ELSE MinOf(hits)

\* first position at or after j that holds no word character
WordEnd(s, j) ==
    MinOf({ k \in j..(Len(s) + 1) : k > Len(s) \/ s[k] \notin WordChars })

\* the character U+0060, which a TLA+ string cannot hold
BackQuote == "U+0060"

\* the three-character code fence of markdown
Fence == <<BackQuote, BackQuote, BackQuote>>

\* re.findall(r'<fence>(?:\w+)?\n(.*?)<fence>', s, re.DOTALL), scanning from position i
\* position of the closing fence of a match that starts at i, 0 when none
\* starts there: the opening fence, word characters, a newline, then the
\* nearest fence
BlockClose(s, i) ==
    IF i + 2 > Len(s) \/ SubSeq(s, i, i + 2) # Fence THEN 0
    ELSE LET k == WordEnd(s, i + 3)
         IN IF k <= Len(s) /\ s[k] = "\n" THEN FindSub(Fence, s, k + 1) ELSE 0

RECURSIVE CodeBlocks(_, _)
CodeBlocks(s, i) ==
    LET starts == { b \in i..Len(s) : BlockClose(s, b) # 0 }
    IN IF starts = {} THEN <<>>
       ELSE LET b == MinOf(starts)
                m == BlockClose(s, b)
            IN <<SubSeq(s, WordEnd(s, b + 3) + 1, m - 1)>> \o CodeBlocks(s, m + 3)

\* max(matches, key=len): the first of the longest
RECURSIVE Longest(_)
Longest(ms) ==
    IF Len(ms) = 1 THEN ms[1]
    ELSE LET r == Longest(Tail(ms)) IN IF Len(ms[1]) >= Len(r) THEN ms[1] ELSE r

\* variant: the reply cut to its first 100 characters before extraction
ExtractCodeTruncated(s) ==
    LET t == SubSeq(s, 1, IF Len(s) < 100 THEN Len(s) ELSE 100)
        ms == CodeBlocks(t, 1)
    IN IF Len(ms) > 0 THEN Strip(Longest(ms)) ELSE Strip(t)

\* CodeGenerator._extract_code
ExtractCode(s) ==
    LET ms == CodeBlocks(s, 1)
    IN IF Len(ms) > 0 THEN Strip(Longest(ms)) ELSE Strip(s)

\* str.split('\n')
RECURSIVE SplitLines(_)
SplitLines(s) ==
    LET i == FindSub(<<"\n">>, s, 1)
    IN IF i = 0 THEN <<s>>
       ELSE <<SubSeq(s, 1, i - 1)>> \o SplitLines(SubSeq(s, i + 1, Len(s)))

\* '\n'.join(lines)
RECURSIVE JoinLines(_)
JoinLines(ls) ==
    IF Len(ls) = 0 THEN <<>>
    ELSE IF Len(ls) = 1 THEN ls[1]
    ELSE ls[1] \o <<"\n">> \o JoinLines(Tail(ls))

\* re.sub(<op>.*?<cl>, '', s, flags=re.DOTALL)
RECURSIVE RemoveDelimited(_, _, _)
RemoveDelimited(s, op, cl) ==
    LET i == FindSub(op, s, 1)
        j == IF i = 0 THEN 0 ELSE FindSub(cl, s, i + Len(op))
    IN IF j = 0 THEN s
       ELSE SubSeq(s, 1, i - 1) \o RemoveDelimited(SubSeq(s, j + Len(cl), Len(s)), op, cl)

\* first position at or after j that holds no newline
NewlinesEnd(s, j) == MinOf({ k \in j..(Len(s) + 1) : k > Len(s) \/ s[k] # "\n" })

\* re.sub(r'\n{3,}', '\n\n', s)
RECURSIVE CollapseNewlines(_)
CollapseNewlines(s) ==
    LET i == FindSub(<<"\n", "\n", "\n">>, s, 1)
    IN IF i = 0 THEN s
       ELSE SubSeq(s, 1, i + 1) \o CollapseNewlines(SubSeq(s, NewlinesEnd(s, i), Len(s)))

\* --------------------------------------------------------------------------
\* json.loads, as far as it accepts or rejects a text
\* --------------------------------------------------------------------------

\* WHITESPACE of json.decoder
JsonWhite == {" ", "\t", "\n", "\r"}

HexDigits == Digits \cup {"a","b","c","d","e","f","A","B","C","D","E","F"}

\* first position at or after i that holds no JSON white space
SkipWhite(s, i) ==
    MinOf({ k \in i..(Len(s) + 1) : k > Len(s) \/ s[k] \notin JsonWhite })

\* first position at or after i that holds no digit
DigitsEnd(s, i) ==
    MinOf({ k \in i..(Len(s) + 1) : k > Len(s) \/ s[k] \notin Digits })

\* is the character at k preceded by an odd number of backslashes
Escaped(s, i, k) ==
    LET plain == { j \in i..(k - 1) : s[j] # "\\" }
    IN ((k - 1 - MaxOf(plain)) % 2) = 1

\* py_scanstring, strict: position after the string that opens at s[i], or 0
StringEnd(s, i) ==
    LET closes == { k \in (i + 1)..Len(s) : s[k] = "\"" /\ ~Escaped(s, i, k) }
    IN IF closes = {} THEN 0
       ELSE LET e == MinOf(closes)
                inside == (i + 1)..(e - 1)
            IN IF /\ \A j \in inside : s[j] \notin {"\n", "\t", "\r"}
                  /\ \A j \in inside :
                        (s[j] = "\\" /\ ~Escaped(s, i, j)) =>
                           \/ s[j + 1] \in {"\"", "\\", "/", "b", "f", "n", "r", "t"}
                           \/ /\ s[j + 1] = "u"
                              /\ j + 5 < e
                              /\ \A h \in (j + 2)..(j + 5) : s[h] \in HexDigits
               THEN e + 1 ELSE 0

\* NUMBER_RE of json.scanner: position after the number at s[i], or 0
NumberEnd(s, i) ==
    LET at(k) == IF k <= Len(s) THEN s[k] ELSE ""
        a == IF at(i) = "-" THEN i + 1 ELSE i
        int == IF at(a) = "0" THEN a + 1 ELSE DigitsEnd(s, a)
        frac == IF at(int) = "." /\ at(int + 1) \in Digits THEN DigitsEnd(s, int + 1) ELSE int
        b == IF at(frac + 1) \in {"+", "-"} THEN frac + 2 ELSE frac + 1
        exp == IF at(frac) \in {"e", "E"} /\ at(b) \in Digits THEN DigitsEnd(s, b) ELSE frac
    IN IF at(a) \in Digits THEN exp ELSE 0

\* the constants the scanner accepts, in the order it tries them
JsonWords ==
    << <<"n","u","l","l">>, <<"t","r","u","e">>, <<"f","a","l","s","e">>,
       <<"N","a","N">>, <<"I","n","f","i","n","i","t","y">>,
       <<"-","I","n","f","i","n","i","t","y">> >>

\* position after the constant or number at s[i], or 0
AtomEnd(s, i) ==
    LET hit == { n \in 1..3 : StartsWith(SubSeq(s, i, Len(s)), JsonWords[n]) }
        late == { n \in 4..6 : StartsWith(SubSeq(s, i, Len(s)), JsonWords[n]) }
    IN IF hit # {} THEN i + Len(JsonWords[MinOf(hit)])
       ELSE IF NumberEnd(s, i) # 0 THEN NumberEnd(s, i)
       ELSE IF late # {} THEN i + Len(JsonWords[MinOf(late)])
       ELSE 0

RECURSIVE ValueEnd(_, _), MembersEnd(_, _), ElementsEnd(_, _)

\* scan_once: position after the JSON value that starts at s[i], or 0
ValueEnd(s, i) ==
    IF i > Len(s) THEN 0
    ELSE IF s[i] = "\"" THEN StringEnd(s, i)
    ELSE IF s[i] = "{"
    THEN LET j == SkipWhite(s, i + 1)
         IN IF j <= Len(s) /\ s[j] = "}" THEN j + 1 ELSE MembersEnd(s, j)
    ELSE IF s[i] = "["
    THEN LET j == SkipWhite(s, i + 1)
         IN IF j <= Len(s) /\ s[j] = "]" THEN j + 1 ELSE ElementsEnd(s, j)
    ELSE AtomEnd(s, i)

\* JSONObject from a key on: "key" : value, then a comma or the closing brace
MembersEnd(s, j) ==
    IF j > Len(s) \/ s[j] # "\"" THEN 0
    ELSE LET k == StringEnd(s, j)
             c == SkipWhite(s, k)
             v == ValueEnd(s, SkipWhite(s, c + 1))
             n == SkipWhite(s, v)
         IN IF k = 0 \/ c > Len(s) \/ s[c] # ":" THEN 0
            ELSE IF v = 0 \/ n > Len(s) THEN 0
            ELSE IF s[n] = "}" THEN n + 1
            ELSE IF s[n] = "," THEN MembersEnd(s, SkipWhite(s, n + 1))
            ELSE 0

\* JSONArray from a value on: value, then a comma or the closing bracket
ElementsEnd(s, j) ==
    LET v == ValueEnd(s, j)
        n == SkipWhite(s, v)
    IN IF v = 0 \/ n > Len(s) THEN 0
       ELSE IF s[n] = "]" THEN n + 1
       ELSE IF s[n] = "," THEN ElementsEnd(s, SkipWhite(s, n + 1))
       ELSE 0

\* json.loads(s): the text parsed (it stands for the value), or JSONDecodeError
JsonLoads(s) ==
    LET e == ValueEnd(s, SkipWhite(s, 1))
    IN IF e # 0 /\ SkipWhite(s, e) = Len(s) + 1
       THEN [ok |-> TRUE, value |-> SubSeq(s, SkipWhite(s, 1), e - 1)]
       ELSE [ok |-> FALSE, value |-> <<>>]

\* --------------------------------------------------------------------------
\* Code generator: the pure parts of CodeGenerator
\* --------------------------------------------------------------------------

\* Optional[str] language argument
NoLanguage == [set |-> FALSE, val |-> <<>>]

Language(l) == [set |-> TRUE, val |-> l]

PYTHON == <<"p","y","t","h","o","n">>

SUPPORTED_LANGUAGES == { <<"p","y","t","h","o","n">>, <<"j","a","v","a">>, <<"j","a","v","a","s","c","r","i","p","t">>, <<"t","y","p","e","s","c","r","i","p","t">>, <<"c","+","+">>, <<"c","p","p">>, <<"c">>, <<"g","o">>, <<"r","u","s","t">>, <<"r","u","b","y">>, <<"p","h","p">>, <<"s","w","i","f","t">>, <<"k","o","t","l","i","n">>, <<"c","#">>, <<"c","s","h","a","r","p">> }

\* one entry per key of LANGUAGE_PATTERNS, in the order of the dict; every
\* pattern is \b(<alts>)\b except that of 'c', which is \b\bc\b(?!\+)
LANGUAGE_PATTERNS ==
    << [lang |-> <<"p","y","t","h","o","n">>, alts |-> <<<<"p","y","t","h","o","n">>, <<"p","y">>>>, no_plus |-> FALSE],
       [lang |-> <<"j","a","v","a">>, alts |-> <<<<"j","a","v","a">>>>, no_plus |-> FALSE],
       [lang |-> <<"j","a","v","a","s","c","r","i","p","t">>, alts |-> <<<<"j","a","v","a","s","c","r","i","p","t">>, <<"j","s">>, <<"n","o","d","e">>>>, no_plus |-> FALSE],
       [lang |-> <<"t","y","p","e","s","c","r","i","p","t">>, alts |-> <<<<"t","y","p","e","s","c","r","i","p","t">>, <<"t","s">>>>, no_plus |-> FALSE],
       [lang |-> <<"c","+","+">>, alts |-> <<<<"c","+","+">>, <<"c","p","p">>>>, no_plus |-> FALSE],
       [lang |-> <<"c">>, alts |-> <<<<"c">>>>, no_plus |-> TRUE],
       [lang |-> <<"g","o">>, alts |-> <<<<"g","o">>, <<"g","o","l","a","n","g">>>>, no_plus |-> FALSE],
       [lang |-> <<"r","u","s","t">>, alts |-> <<<<"r","u","s","t">>>>, no_plus |-> FALSE],
       [lang |-> <<"r","u","b","y">>, alts |-> <<<<"r","u","b","y">>>>, no_plus |-> FALSE],
       [lang |-> <<"p","h","p">>, alts |-> <<<<"p","h","p">>>>, no_plus |-> FALSE],
       [lang |-> <<"s","w","i","f","t">>, alts |-> <<<<"s","w","i","f","t">>>>, no_plus |-> FALSE],
       [lang |-> <<"k","o","t","l","i","n">>, alts |-> <<<<"k","o","t","l","i","n">>>>, no_plus |-> FALSE],
       [lang |-> <<"c","#">>, alts |-> <<<<"c","#">>, <<"c","s","h","a","r","p">>>>, no_plus |-> FALSE] >>

IsWordAt(s, k) == k >= 1 /\ k <= Len(s) /\ s[k] \in WordChars

\* \b between positions k and k + 1
Boundary(s, k) == IsWordAt(s, k) # IsWordAt(s, k + 1)

\* re.search(pattern, s)
Search(pat, s) ==
    \E a \in 1..Len(pat.alts) : \E i \in 1..Len(s) :
        LET alt == pat.alts[a]
            e == i + Len(alt) - 1
        IN /\ e <= Len(s)
           /\ SubSeq(s, i, e) = alt
           /\ Boundary(s, i - 1)
           /\ Boundary(s, e)
           /\ pat.no_plus => ~(e + 1 <= Len(s) /\ s[e + 1] = "+")

\* the `for lang, pattern in self.LANGUAGE_PATTERNS.items()` loop from entry n on
RECURSIVE FirstLanguage(_, _)
FirstLanguage(s, n) ==
    IF n > Len(LANGUAGE_PATTERNS) THEN PYTHON
    ELSE IF Search(LANGUAGE_PATTERNS[n], s) THEN LANGUAGE_PATTERNS[n].lang
    ELSE FirstLanguage(s, n + 1)

\* CodeGenerator.detect_language
DetectLanguage(problem) == FirstLanguage(Lower(problem), 1)

\* variant: an unsupported language is kept as requested
ResolveLanguageKeeps(language, problem) ==
    IF ~language.set THEN DetectLanguage(problem) ELSE Lower(language.val)

\* "# Detect or validate language"
ResolveLanguage(language, problem) ==
    IF ~language.set THEN DetectLanguage(problem)
    ELSE IF Lower(language.val) \in SUPPORTED_LANGUAGES THEN Lower(language.val)
    ELSE PYTHON

NO_COMMENTS_KEYWORDS == { <<"n","o"," ","c","o","m","m","e","n","t","s">>, <<"w","i","t","h","o","u","t"," ","c","o","m","m","e","n","t","s">>, <<"r","e","m","o","v","e"," ","c","o","m","m","e","n","t","s">>, <<"c","l","e","a","n"," ","c","o","d","e">> }

\* include_comments = not any(kw in problem_statement.lower() for kw in no_comments_keywords)
IncludeComments(problem) == ~\E kw \in NO_COMMENTS_KEYWORDS : Contains(kw, Lower(problem))

CommentInstruction(include_comments) ==
    IF include_comments THEN <<"-"," ","A","d","d"," ","c","o","m","p","r","e","h","e","n","s","i","v","e"," ","c","o","m","m","e","n","t","s"," ","e","x","p","l","a","i","n","i","n","g"," ","t","h","e"," ","a","p","p","r","o","a","c","h">>
    ELSE <<"-"," ","D","O"," ","N","O","T"," ","i","n","c","l","u","d","e"," ","a","n","y"," ","c","o","m","m","e","n","t","s"," ","o","r"," ","d","o","c","s","t","r","i","n","g","s","."," ","C","o","d","e"," ","O","N","L","Y",".">>

\* CodeGenerator._build_generation_prompt
BuildPrompt(problem, language, iteration, include_comments) ==
    LET instruction == CommentInstruction(include_comments)
    IN IF iteration = 0
       THEN <<"G","e","n","e","r","a","t","e"," ","a"," ","c","o","m","p","l","e","t","e",","," ","w","o","r","k","i","n","g"," ","s","o","l","u","t","i","o","n"," ","i","n"," ">>
        \o Upper(language)
        \o <<" ","f","o","r"," ","t","h","e"," ","f","o","l","l","o","w","i","n","g"," ","p","r","o","b","l","e","m",":","\n","\n">>
        \o problem
        \o <<"\n","\n","R","e","q","u","i","r","e","m","e","n","t","s",":","\n","-"," ","W","r","i","t","e"," ","C","O","M","P","L","E","T","E",","," ","P","R","O","D","U","C","T","I","O","N","-","Q","U","A","L","I","T","Y"," ","c","o","d","e","\n","-"," ","I","n","c","l","u","d","e"," ","A","L","L"," ","n","e","c","e","s","s","a","r","y"," ","l","o","g","i","c"," ","a","n","d"," ","i","m","p","l","e","m","e","n","t","a","t","i","o","n","s","\n">>
        \o instruction
        \o <<"\n","-"," ","H","a","n","d","l","e"," ","e","d","g","e"," ","c","a","s","e","s","\n","-"," ","U","s","e"," ","b","e","s","t"," ","p","r","a","c","t","i","c","e","s"," ","f","o","r"," ">>
        \o language
        \o <<"\n","-"," ","M","a","k","e"," ","t","h","e"," ","c","o","d","e"," ","r","e","a","d","a","b","l","e"," ","a","n","d"," ","m","a","i","n","t","a","i","n","a","b","l","e","\n","-"," ","I","n","c","l","u","d","e"," ","e","x","a","m","p","l","e"," ","u","s","a","g","e"," ","o","r"," ","t","e","s","t"," ","c","a","s","e","s","\n","\n","R","e","t","u","r","n"," ","O","N","L","Y"," ","t","h","e"," ","c","o","m","p","l","e","t","e"," ","w","o","r","k","i","n","g"," ","c","o","d","e",","," ","n","o"," ","a","d","d","i","t","i","o","n","a","l"," ","e","x","p","l","a","n","a","t","i","o","n","s",".">>
       ELSE <<"G","e","n","e","r","a","t","e"," ","a","n"," ","O","P","T","I","M","I","Z","E","D",","," ","C","O","M","P","L","E","T","E"," ","s","o","l","u","t","i","o","n"," ","i","n"," ">>
        \o Upper(language)
        \o <<" ","t","h","a","t"," ","i","m","p","r","o","v","e","s"," ","u","p","o","n"," ","t","h","i","s"," ","p","r","o","b","l","e","m",":","\n","\n">>
        \o problem
        \o <<"\n","\n","R","e","q","u","i","r","e","m","e","n","t","s",":","\n","-"," ","I","m","p","r","o","v","e"," ","t","i","m","e"," ","o","r"," ","s","p","a","c","e"," ","c","o","m","p","l","e","x","i","t","y","\n","-"," ","M","a","i","n","t","a","i","n"," ","c","o","r","r","e","c","t","n","e","s","s","\n","-"," ","U","s","e"," ","m","o","r","e"," ","e","f","f","i","c","i","e","n","t"," ","a","l","g","o","r","i","t","h","m","s"," ","o","r"," ","d","a","t","a"," ","s","t","r","u","c","t","u","r","e","s","\n","-"," ","I","n","c","l","u","d","e"," ","A","L","L"," ","n","e","c","e","s","s","a","r","y"," ","i","m","p","l","e","m","e","n","t","a","t","i","o","n","s","\n">>
        \o instruction
        \o <<"\n","-"," ","H","a","n","d","l","e"," ","e","d","g","e"," ","c","a","s","e","s","\n","\n","R","e","t","u","r","n"," ","O","N","L","Y"," ","t","h","e"," ","c","o","m","p","l","e","t","e"," ","o","p","t","i","m","i","z","e","d"," ","c","o","d","e",","," ","n","o"," ","a","d","d","i","t","i","o","n","a","l"," ","e","x","p","l","a","n","a","t","i","o","n","s",".">>

\* the if/elif chain of _generate_complete_solution, in its order
PROBLEM_KINDS ==
    << [kind |-> "kadane", keywords |-> {<<"k","a","d","a","n","e">>, <<"m","a","x","i","m","u","m"," ","s","u","b","a","r","r","a","y">>, <<"m","a","x"," ","s","u","b","a","r","r","a","y">>, <<"c","o","n","t","i","g","u","o","u","s"," ","s","u","m">>}],
       [kind |-> "binary_search", keywords |-> {<<"b","i","n","a","r","y"," ","s","e","a","r","c","h">>, <<"b","s","e","a","r","c","h">>}],
       [kind |-> "two_sum", keywords |-> {<<"t","w","o"," ","s","u","m">>, <<"t","w","o","s","u","m">>, <<"p","a","i","r"," ","s","u","m">>, <<"2","s","u","m">>}],
       [kind |-> "bfs", keywords |-> {<<"b","f","s">>, <<"b","r","e","a","d","t","h"," ","f","i","r","s","t">>, <<"b","r","e","a","d","t","h","-","f","i","r","s","t">>, <<"l","e","v","e","l"," ","o","r","d","e","r">>}],
       [kind |-> "dfs", keywords |-> {<<"d","f","s">>, <<"d","e","p","t","h"," ","f","i","r","s","t">>, <<"d","e","p","t","h","-","f","i","r","s","t">>}],
       [kind |-> "linked_list", keywords |-> {<<"l","i","n","k","e","d"," ","l","i","s","t">>, <<"l","i","n","k","e","d","l","i","s","t">>, <<"s","i","n","g","l","y"," ","l","i","n","k","e","d">>, <<"d","o","u","b","l","y"," ","l","i","n","k","e","d">>}],
       [kind |-> "tree", keywords |-> {<<"b","i","n","a","r","y"," ","t","r","e","e">>, <<"b","s","t">>, <<"t","r","e","e"," ","t","r","a","v","e","r","s","a","l">>, <<"i","n","o","r","d","e","r">>, <<"p","r","e","o","r","d","e","r">>, <<"p","o","s","t","o","r","d","e","r">>}],
       [kind |-> "dp", keywords |-> {<<"d","y","n","a","m","i","c"," ","p","r","o","g","r","a","m","m","i","n","g">>, <<"d","p">>, <<"k","n","a","p","s","a","c","k">>, <<"l","c","s">>, <<"l","o","n","g","e","s","t"," ","c","o","m","m","o","n">>}],
       [kind |-> "merge_sort", keywords |-> {<<"m","e","r","g","e"," ","s","o","r","t">>, <<"m","e","r","g","e","s","o","r","t">>}],
       [kind |-> "quick_sort", keywords |-> {<<"q","u","i","c","k"," ","s","o","r","t">>, <<"q","u","i","c","k","s","o","r","t">>}],
       [kind |-> "anagram", keywords |-> {<<"a","n","a","g","r","a","m">>, <<"p","e","r","m","u","t","a","t","i","o","n">>}],
       [kind |-> "gcd", keywords |-> {<<"g","c","d">>, <<"g","r","e","a","t","e","s","t"," ","c","o","m","m","o","n">>, <<"e","u","c","l","i","d","e","a","n">>}],
       [kind |-> "lcm", keywords |-> {<<"l","c","m">>, <<"l","e","a","s","t"," ","c","o","m","m","o","n"," ","m","u","l","t","i","p","l","e">>}],
       [kind |-> "power", keywords |-> {<<"p","o","w","e","r">>, <<"e","x","p","o","n","e","n","t">>, <<"p","o","w">>}],
       [kind |-> "reverse", keywords |-> {<<"r","e","v","e","r","s","e">>, <<"b","a","c","k","w","a","r","d">>, <<"f","l","i","p">>}],
       [kind |-> "palindrome", keywords |-> {<<"p","a","l","i","n","d","r","o","m","e">>, <<"p","a","l","i","n","d","r","o","m","i","c">>}],
       [kind |-> "factorial", keywords |-> {<<"f","a","c","t","o","r","i","a","l">>, <<"f","a","c","t","o","r">>}],
       [kind |-> "fibonacci", keywords |-> {<<"f","i","b","o","n","a","c","c","i">>, <<"f","i","b">>}],
       [kind |-> "prime", keywords |-> {<<"p","r","i","m","e">>, <<"c","h","e","c","k"," ","p","r","i","m","e">>, <<"s","i","e","v","e">>}],
       [kind |-> "sorting", keywords |-> {<<"s","o","r","t">>, <<"s","o","r","t","i","n","g">>, <<"b","u","b","b","l","e">>, <<"i","n","s","e","r","t","i","o","n">>, <<"s","e","l","e","c","t","i","o","n">>}],
       [kind |-> "sum", keywords |-> {<<"s","u","m">>, <<"a","d","d">>, <<"t","o","t","a","l">>}],
       [kind |-> "max", keywords |-> {<<"m","a","x">>, <<"m","a","x","i","m","u","m">>, <<"l","a","r","g","e","s","t">>, <<"m","i","n">>, <<"m","i","n","i","m","u","m">>, <<"s","m","a","l","l","e","s","t">>}],
       [kind |-> "search", keywords |-> {<<"s","e","a","r","c","h">>, <<"f","i","n","d">>, <<"l","o","c","a","t","e">>, <<"l","i","n","e","a","r"," ","s","e","a","r","c","h">>}],
       [kind |-> "matrix", keywords |-> {<<"m","a","t","r","i","x">>, <<"g","r","i","d">>, <<"2","d"," ","a","r","r","a","y">>}],
       [kind |-> "stack", keywords |-> {<<"s","t","a","c","k">>, <<"p","u","s","h">>, <<"p","o","p">>, <<"l","i","f","o">>}],
       [kind |-> "queue", keywords |-> {<<"q","u","e","u","e">>, <<"f","i","f","o">>, <<"e","n","q","u","e","u","e">>, <<"d","e","q","u","e","u","e">>}] >>

RECURSIVE FirstKind(_, _)
FirstKind(s, n) ==
    IF n > Len(PROBLEM_KINDS) THEN "generic"
    ELSE IF \E kw \in PROBLEM_KINDS[n].keywords : Contains(kw, s) THEN PROBLEM_KINDS[n].kind
    ELSE FirstKind(s, n + 1)

\* the _solve_<kind>_problem method _generate_complete_solution dispatches to
ProblemKind(problem) == FirstKind(Lower(problem), 1)

\* generated code: the literal a template method returns for its arguments
\* (comments kept or stripped), or text taken from a reply of the gateway
TemplateCode(kind, language, iteration, problem, comments) ==
    [origin |-> "template", text |-> <<>>, kind |-> kind, language |-> language,
     iteration |-> iteration, problem |-> problem, comments |-> comments]

LLMCode(text) ==
    [origin |-> "llm", text |-> text, kind |-> "", language |-> <<>>,
     iteration |-> 0, problem |-> <<>>, comments |-> TRUE]

\* CodeGenerator._generate_complete_solution
GenerateCompleteSolution(problem, language, iteration) ==
    TemplateCode(ProblemKind(problem), language, iteration, problem, TRUE)

HASH_COMMENT_LANGUAGES == { <<"p","y","t","h","o","n">>, <<"r","u","b","y">>, <<"p","e","r","l">>, <<"r">>, <<"s","h","e","l","l">> }

SLASH_COMMENT_LANGUAGES == { <<"j","a","v","a","s","c","r","i","p","t">>, <<"j","a","v","a">>, <<"c","+","+">>, <<"c">>, <<"c","#">>, <<"g","o">>, <<"r","u","s","t">>, <<"s","w","i","f","t">>, <<"k","o","t","l","i","n">>, <<"p","h","p">> }

BLOCK_COMMENT_LANGUAGES == { <<"j","a","v","a","s","c","r","i","p","t">>, <<"j","a","v","a">>, <<"c","+","+">>, <<"c">>, <<"c","#">>, <<"p","h","p">>, <<"s","w","i","f","t">> }

\* the `for line in lines` loop of _strip_comments
RECURSIVE CleanedLines(_, _)
CleanedLines(ls, language) ==
    IF Len(ls) = 0 THEN <<>>
    ELSE LET stripped == Strip(ls[1])
             rest == CleanedLines(Tail(ls), language)
         IN IF stripped = <<>> THEN << <<>> >> \o rest
            ELSE IF language \in HASH_COMMENT_LANGUAGES
            THEN IF StartsWith(stripped, <<"#">>) THEN rest ELSE <<ls[1]>> \o rest
            ELSE IF language \in SLASH_COMMENT_LANGUAGES
            THEN IF StartsWith(stripped, <<"/","/">>) THEN rest ELSE <<ls[1]>> \o rest
            ELSE <<ls[1]>> \o rest

\* CodeGenerator._strip_comments on text
StripCommentsText(s, language) ==
    LET joined == JoinLines(CleanedLines(SplitLines(s), language))
        r == IF language = PYTHON
             THEN RemoveDelimited(RemoveDelimited(joined, <<"\"","\"","\"">>, <<"\"","\"","\"">>),
                                  <<"'","'","'">>, <<"'","'","'">>)
             ELSE IF language \in BLOCK_COMMENT_LANGUAGES
             THEN RemoveDelimited(joined, <<"/","*">>, <<"*","/">>)
             ELSE joined
    IN Strip(CollapseNewlines(r))

\* CodeGenerator._strip_comments
StripComments(code, language) ==
    IF code.origin = "template" THEN [code EXCEPT !.comments = FALSE]
    ELSE [code EXCEPT !.text = StripCommentsText(code.text, language)]

\* --------------------------------------------------------------------------
\* State
\* --------------------------------------------------------------------------

VARIABLES
    environ,          \* os.environ restricted to the credential variables
    total_requests,   \* LLMGateway.stats['total_requests']
    pc,               \* position of each caller inside completion
    idx,              \* index in Chain of the provider block being executed
    req,              \* arguments of the running completion call
    api_key,          \* key handed to the adapter being executed
    reply,            \* native reply held by the adapter (`response`)
    extracted,        \* text read out of the reply
    tmp,              \* value read by `+= 1` before it is written back
    exc,              \* exception in flight
    result,           \* value returned by completion
    trace,            \* per provider: untried / skipped / failed / ok in this call
    start_requests,   \* total_requests when the call started
    entry_requests,   \* total_requests when the running adapter was entered
    prev,             \* outcome of the previous completed call
    attempts,         \* per provider: adapter invocations made by this call
    sent,             \* native request the running adapter handed to its provider
    hist,             \* trace of the previous completed call, where it is recorded
    gateway_instance, \* llm_gateway._gateway_instance: 0 for None, else the object
    instance_requests,\* stats['total_requests'] of each LLMGateway object constructed
    get_pc,           \* position of each thread inside get_llm_gateway
    made,             \* object a thread has constructed and not yet stored
    held,             \* gateway each consumer got from get_llm_gateway, 0 before
    llm_gateway,      \* CodeGenerator.llm_gateway: 0 for None, 1 for the gateway
    generation_history, \* CodeGenerator.generation_history
    gen_pc,           \* position inside generate_code
    gen_frame,        \* locals of the running generate_code call
    gen_result,       \* value the last generate_code call returned
    gen_seen,         \* what the last generate_code call was asked and met
    viz_gateway,      \* VisualizationGenerator.llm_gateway: 0 for None, 1 for the gateway
    viz_pc,           \* position inside generate_trace
    viz_frame,        \* locals of the running generate_trace call
    viz_result,       \* value the last generate_trace call returned
    viz_seen,         \* what the last generate_trace call was given and did
    conversations,    \* AgenticPlatform.conversations: the status of each, by creation
    stats,            \* AgenticPlatform.stats
    users,            \* table users: is_blocked of each user id
    active_sessions   \* table active_sessions: its rows, by insertion

\* state of the gateway object and of the calls running on it
gwvars == <<environ, total_requests, pc, idx, req, api_key, reply, extracted, tmp,
            exc, result, trace, start_requests, entry_requests, prev, attempts,
            sent, hist>>

\* state of get_llm_gateway and of the LLMGateway objects it hands out
singletonvars == <<gateway_instance, instance_requests, get_pc, made, held>>

\* state of the CodeGenerator object and of its running call
genvars == <<llm_gateway, generation_history, gen_pc, gen_frame, gen_result, gen_seen>>

\* state of the VisualizationGenerator object and of its running call
vizvars == <<viz_gateway, viz_pc, viz_frame, viz_result, viz_seen>>

\* state of the AgenticPlatform object
platformvars == <<conversations, stats>>

\* the tables of the SQLite database
dbvars == <<users, active_sessions>>

appvars == <<singletonvars, genvars, vizvars, platformvars, dbvars>>

\* what the steps of get_llm_gateway leave alone
nonsingletonvars == <<gwvars, genvars, vizvars, platformvars, dbvars>>

\* what generate_code leaves alone, the gateway apart
nongenvars == <<singletonvars, vizvars, platformvars, dbvars>>

\* what generate_trace leaves alone, the gateway apart
nonvizvars == <<singletonvars, genvars, platformvars, dbvars>>

\* what the platform's methods leave alone
nonplatformvars == <<gwvars, singletonvars, genvars, vizvars, dbvars>>

\* what the database functions leave alone
nondbvars == <<gwvars, singletonvars, genvars, vizvars, platformvars>>

vars == <<environ, total_requests, pc, idx, req, api_key, reply, extracted, tmp,
          exc, result, trace, start_requests, entry_requests, prev, attempts,
          sent, hist, appvars>>

NoExtracted == Extracted(FALSE, NoExc, "", "")

NoRequest == [model |-> <<>>, max_tokens |-> NoInt, messages |-> <<>>]

NoTrace == [p \in Providers |-> "untried"]

NoAttempts == [p \in Providers |-> 0]

NoPrev == [valid |-> FALSE, response |-> NoResult, all_absent |-> FALSE, delta |-> 0]

\* every credential variable unset
AllAbsent(e) == \A v \in EnvVars : e[v] = None

\* module state at import: `_gateway_instance = None`, no object constructed
InitSingleton ==
    /\ gateway_instance = 0
    /\ instance_requests = <<>>
    /\ get_pc = [c \in Callers |-> "idle"]
    /\ made = [c \in Callers |-> 0]
    /\ held = [c \in Callers |-> 0]

\* generate_code has not been called
NoGenFrame ==
    [problem |-> <<>>, requested |-> NoLanguage, language |-> <<>>, iteration |-> 0,
     include_comments |-> TRUE]

NoGenResult ==
    [success |-> FALSE, code |-> LLMCode(<<>>), language |-> <<>>,
     problem_statement |-> <<>>, iteration |-> 0, provider |-> "<unset>", model |-> <<>>]

NoGenSeen == [calls |-> 0, requested |-> NoLanguage, outcome |-> "", response |-> NoResult]

\* CodeGenerator(): llm_gateway=None, an empty history
InitGen ==
    /\ llm_gateway = 0
    /\ generation_history = <<>>
    /\ gen_pc = "idle"
    /\ gen_frame = NoGenFrame
    /\ gen_result = NoGenResult
    /\ gen_seen = NoGenSeen

NoVizFrame == [code |-> <<>>, language |-> <<>>, problem_type |-> <<>>, calls |-> 0]

NoVizResult == [kind |-> "<unset>", visualization_type |-> "", json |-> <<>>]

NoVizSeen == [traces |-> 0, code |-> <<>>, calls |-> 0, first |-> "", retried |-> FALSE]

\* VisualizationGenerator(None), no call made
InitViz ==
    /\ viz_gateway = 0
    /\ viz_pc = "idle"
    /\ viz_frame = NoVizFrame
    /\ viz_result = NoVizResult
    /\ viz_seen = NoVizSeen

\* AgenticPlatform.__init__
InitPlatform ==
    /\ conversations = <<>>
    /\ stats = [total_conversations |-> 0, active_conversations |-> 0]

\* init_db on an empty file: the default admin with id 1, no session
InitDb ==
    /\ users = << [username |-> "admin", password |-> "admin", phone |-> "0000000000",
                   is_blocked |-> FALSE] >>
    /\ active_sessions = <<>>

InitApp == InitSingleton /\ InitGen /\ InitViz /\ InitPlatform /\ InitDb

\* LLMGateway.__init__ and callers that have made no call yet
InitGateway ==
    /\ total_requests = 0
    /\ pc = [c \in Callers |-> "idle"]
    /\ idx = [c \in Callers |-> 1]
    /\ req = [c \in Callers |-> NoRequest]
    /\ api_key = [c \in Callers |-> None]
    /\ reply = [c \in Callers |-> NoReply]
    /\ extracted = [c \in Callers |-> NoExtracted]
    /\ tmp = [c \in Callers |-> 0]
    /\ exc = [c \in Callers |-> NoExc]
    /\ result = [c \in Callers |-> NoResult]
    /\ trace = [c \in Callers |-> NoTrace]
    /\ start_requests = [c \in Callers |-> 0]
    /\ entry_requests = [c \in Callers |-> 0]
    /\ prev = NoPrev
    /\ attempts = [c \in Callers |-> NoAttempts]
    /\ sent = [c \in Callers |-> NoSent]
    /\ hist = NoTrace
    /\ InitApp

\* a process started without credentials that has made no call yet
Init ==
    /\ environ \in [EnvVars -> {None}]
    /\ InitGateway

\* the deployment sets or unsets one credential variable between calls
SetEnv(v, val) ==
    /\ \A c \in Callers : pc[c] = "idle"
    /\ environ[v] # val
    /\ environ' = [environ EXCEPT ![v] = val]
    /\ UNCHANGED <<total_requests, pc, idx, req, api_key, reply, extracted, tmp,
                   exc, result, trace, start_requests, entry_requests, prev,
                   attempts, sent, hist, appvars>>

\* a caller enters completion(messages, model, temperature, max_tokens)
Begin(c, r) ==
    /\ pc[c] = "idle"
    /\ total_requests < MaxRequests
    /\ pc' = [pc EXCEPT ![c] = "gate"]
    /\ idx' = [idx EXCEPT ![c] = 1]
    /\ req' = [req EXCEPT ![c] = r]
    /\ trace' = [trace EXCEPT ![c] = NoTrace]
    /\ start_requests' = [start_requests EXCEPT ![c] = total_requests]
    /\ attempts' = [attempts EXCEPT ![c] = NoAttempts]
    /\ UNCHANGED <<environ, total_requests, api_key, reply, extracted, tmp, exc,
                   result, entry_requests, prev, sent, hist, appvars>>

\* variant: a missing credential ends the walk instead of moving on
GateStopsAtAbsent(c) ==
    /\ pc[c] = "gate"
    /\ idx[c] <= Len(Chain)
    /\ LET p == Chain[idx[c]]
           k == GetKey(p, environ)
       IN IF Truthy(k)
          THEN /\ pc' = [pc EXCEPT ![c] = "adapter"]
               /\ api_key' = [api_key EXCEPT ![c] = k]
               /\ entry_requests' = [entry_requests EXCEPT ![c] = total_requests]
               /\ attempts' = [attempts EXCEPT ![c][p] = attempts[c][p] + 1]
               /\ UNCHANGED <<idx, trace>>
          ELSE /\ idx' = [idx EXCEPT ![c] = Len(Chain) + 1]
               /\ trace' = [trace EXCEPT ![c][p] = "skipped"]
               /\ UNCHANGED <<pc, api_key, entry_requests, attempts>>
    /\ UNCHANGED <<environ, total_requests, req, reply, extracted, tmp, exc,
                   result, start_requests, prev, sent, hist, appvars>>

\* variant: a provider that failed in the previous call is passed over
GateCircuitBreaker(c) ==
    /\ pc[c] = "gate"
    /\ idx[c] <= Len(Chain)
    /\ LET p == Chain[idx[c]]
           k == IF hist[p] = "failed" THEN None ELSE GetKey(p, environ)
       IN IF Truthy(k)
          THEN /\ pc' = [pc EXCEPT ![c] = "adapter"]
               /\ api_key' = [api_key EXCEPT ![c] = k]
               /\ entry_requests' = [entry_requests EXCEPT ![c] = total_requests]
               /\ attempts' = [attempts EXCEPT ![c][p] = attempts[c][p] + 1]
               /\ UNCHANGED <<idx, trace>>
          ELSE /\ idx' = [idx EXCEPT ![c] = idx[c] + 1]
               /\ trace' = [trace EXCEPT ![c][p] = "skipped"]
               /\ UNCHANGED <<pc, api_key, entry_requests, attempts>>
    /\ UNCHANGED <<environ, total_requests, req, reply, extracted, tmp, exc,
                   result, start_requests, prev, sent, hist, appvars>>

\* variant: the outcome of a gate is kept from the previous call
GateCached(c) ==
    /\ pc[c] = "gate"
    /\ idx[c] <= Len(Chain)
    /\ LET p == Chain[idx[c]]
           k == CASE hist[p] = "skipped" -> None
                  [] hist[p] \in {"failed", "ok"} -> Str("cached")
                  [] OTHER -> GetKey(p, environ)
       IN IF Truthy(k)
          THEN /\ pc' = [pc EXCEPT ![c] = "adapter"]
               /\ api_key' = [api_key EXCEPT ![c] = k]
               /\ entry_requests' = [entry_requests EXCEPT ![c] = total_requests]
               /\ attempts' = [attempts EXCEPT ![c][p] = attempts[c][p] + 1]
               /\ UNCHANGED <<idx, trace>>
          ELSE /\ idx' = [idx EXCEPT ![c] = idx[c] + 1]
               /\ trace' = [trace EXCEPT ![c][p] = "skipped"]
               /\ UNCHANGED <<pc, api_key, entry_requests, attempts>>
    /\ UNCHANGED <<environ, total_requests, req, reply, extracted, tmp, exc,
                   result, start_requests, prev, sent, hist, appvars>>

\* `<p>_key = os.getenv(...)` / `if <p>_key:` of one provider block
Gate(c) ==
    /\ pc[c] = "gate"
    /\ idx[c] <= Len(Chain)
    /\ LET p == Chain[idx[c]]
           k == GetKey(p, environ)
       IN IF Truthy(k)
          THEN /\ pc' = [pc EXCEPT ![c] = "adapter"]
               /\ api_key' = [api_key EXCEPT ![c] = k]
               /\ entry_requests' = [entry_requests EXCEPT ![c] = total_requests]
               /\ attempts' = [attempts EXCEPT ![c][p] = attempts[c][p] + 1]
               /\ UNCHANGED <<idx, trace>>
          ELSE /\ idx' = [idx EXCEPT ![c] = idx[c] + 1]
               /\ trace' = [trace EXCEPT ![c][p] = "skipped"]
               /\ UNCHANGED <<pc, api_key, entry_requests, attempts>>
    /\ UNCHANGED <<environ, total_requests, req, reply, extracted, tmp, exc,
                   result, start_requests, prev, sent, hist, appvars>>

\* the adapter raises before it holds a reply: import, client construction,
\* the request, raise_for_status(), response.json()
CallRaises(c) ==
    /\ pc[c] = "adapter"
    /\ \E cls \in CallExceptions(Chain[idx[c]]) :
          exc' = [exc EXCEPT ![c] = cls]
    /\ pc' = [pc EXCEPT ![c] = "raised"]
    /\ UNCHANGED <<environ, total_requests, idx, req, api_key, reply, extracted,
                   tmp, result, trace, start_requests, entry_requests, prev,
                   attempts, sent, hist, appvars>>

\* position after the provider has replied
AfterReply(p) == IF p = "huggingface" THEN "extract" ELSE "incr_read"

\* position after `self.stats['total_requests'] += 1`
AfterIncr(p) == IF p = "huggingface" THEN "build" ELSE "extract"

\* position after the text has been read out of the reply
AfterExtract(p) == IF p = "huggingface" THEN "incr_read" ELSE "build"

\* the provider call returns a native reply
CallReplies(c) ==
    /\ pc[c] = "adapter"
    /\ \E r \in NativeReplies(Chain[idx[c]]) :
          reply' = [reply EXCEPT ![c] = r]
    /\ sent' = [sent EXCEPT ![c] = Sent(Chain[idx[c]], req[c])]
    /\ pc' = [pc EXCEPT ![c] = AfterReply(Chain[idx[c]])]
    /\ UNCHANGED <<environ, total_requests, idx, req, api_key, extracted, tmp,
                   exc, result, trace, start_requests, entry_requests, prev,
                   attempts, hist, appvars>>

\* variant: the increment done in one indivisible step
IncrReadAtomic(c) ==
    /\ pc[c] = "incr_read"
    /\ total_requests' = total_requests + 1
    /\ pc' = [pc EXCEPT ![c] = AfterIncr(Chain[idx[c]])]
    /\ UNCHANGED <<environ, idx, req, api_key, reply, extracted, tmp, exc,
                   result, trace, start_requests, entry_requests, prev,
                   attempts, sent, hist, appvars>>

\* `self.stats['total_requests'] += 1`: load
IncrRead(c) ==
    /\ pc[c] = "incr_read"
    /\ tmp' = [tmp EXCEPT ![c] = total_requests]
    /\ pc' = [pc EXCEPT ![c] = "incr_write"]
    /\ UNCHANGED <<environ, total_requests, idx, req, api_key, reply, extracted,
                   exc, result, trace, start_requests, entry_requests, prev,
                   attempts, sent, hist, appvars>>

\* `self.stats['total_requests'] += 1`: add and store
IncrWrite(c) ==
    /\ pc[c] = "incr_write"
    /\ total_requests' = tmp[c] + 1
    /\ pc' = [pc EXCEPT ![c] = AfterIncr(Chain[idx[c]])]
    /\ UNCHANGED <<environ, idx, req, api_key, reply, extracted, tmp, exc,
                   result, trace, start_requests, entry_requests, prev,
                   attempts, sent, hist, appvars>>

\* the adapter reads the text out of the reply, or raises doing so
ExtractText(c) ==
    /\ pc[c] = "extract"
    /\ LET p == Chain[idx[c]]
           x == Extract(p, reply[c])
       IN IF x.ok
          THEN /\ extracted' = [extracted EXCEPT ![c] = x]
               /\ pc' = [pc EXCEPT ![c] = AfterExtract(p)]
               /\ UNCHANGED exc
          ELSE /\ exc' = [exc EXCEPT ![c] = x.cls]
               /\ pc' = [pc EXCEPT ![c] = "raised"]
               /\ UNCHANGED extracted
    /\ UNCHANGED <<environ, total_requests, idx, req, api_key, reply, tmp,
                   result, trace, start_requests, entry_requests, prev,
                   attempts, sent, hist, appvars>>

\* variant: the adapter's dict is kept but completion does not return it
ReturnKeepsGoing(c) ==
    /\ pc[c] = "build"
    /\ LET p == Chain[idx[c]]
           r == AdapterResponse(p, extracted[c], req[c].model)
       IN /\ result' = [result EXCEPT ![c] = r]
          /\ idx' = [idx EXCEPT ![c] = idx[c] + 1]
          /\ pc' = [pc EXCEPT ![c] = "gate"]
          /\ trace' = [trace EXCEPT ![c][p] = "ok"]
    /\ UNCHANGED <<environ, total_requests, req, api_key, reply, extracted, tmp,
                   exc, start_requests, entry_requests, prev, attempts, sent, hist, appvars>>

\* the adapter returns its dict; completion's `if result: return result`
Return(c) ==
    /\ pc[c] = "build"
    /\ LET p == Chain[idx[c]]
           r == AdapterResponse(p, extracted[c], req[c].model)
       IN IF ResultTruthy(r)
          THEN /\ result' = [result EXCEPT ![c] = r]
               /\ pc' = [pc EXCEPT ![c] = "returned"]
               /\ trace' = [trace EXCEPT ![c][p] = "ok"]
               /\ UNCHANGED idx
          ELSE /\ idx' = [idx EXCEPT ![c] = idx[c] + 1]
               /\ pc' = [pc EXCEPT ![c] = "gate"]
               /\ trace' = [trace EXCEPT ![c][p] = "failed"]
               /\ UNCHANGED result
    /\ UNCHANGED <<environ, total_requests, req, api_key, reply, extracted, tmp,
                   exc, start_requests, entry_requests, prev, attempts, sent, hist, appvars>>

\* variant: the handler gives up on the remaining providers
CatchGivesUp(c) ==
    /\ pc[c] = "raised"
    /\ IF Catches(exc[c])
       THEN /\ pc' = [pc EXCEPT ![c] = "gate"]
            /\ idx' = [idx EXCEPT ![c] = Len(Chain) + 1]
            /\ exc' = [exc EXCEPT ![c] = NoExc]
            /\ trace' = [trace EXCEPT ![c][Chain[idx[c]]] = "failed"]
            /\ reply' = [reply EXCEPT ![c] = NoReply]
            /\ sent' = [sent EXCEPT ![c] = NoSent]
       ELSE /\ pc' = [pc EXCEPT ![c] = "escaped"]
            /\ UNCHANGED <<idx, exc, trace, reply, sent>>
    /\ UNCHANGED <<environ, total_requests, req, api_key, extracted, tmp,
                   result, start_requests, entry_requests, prev, attempts, hist, appvars>>

\* variant: the position in the chain kept on the shared gateway
CatchSharedCursor(c) ==
    /\ pc[c] = "raised"
    /\ IF Catches(exc[c])
       THEN /\ pc' = [pc EXCEPT ![c] = "gate"]
            /\ idx' = [d \in Callers |-> IF pc[d] # "idle" THEN idx[c] + 1 ELSE idx[d]]
            /\ exc' = [exc EXCEPT ![c] = NoExc]
            /\ trace' = [trace EXCEPT ![c][Chain[idx[c]]] = "failed"]
            /\ reply' = [reply EXCEPT ![c] = NoReply]
            /\ sent' = [sent EXCEPT ![c] = NoSent]
       ELSE /\ pc' = [pc EXCEPT ![c] = "escaped"]
            /\ UNCHANGED <<idx, exc, trace, reply, sent>>
    /\ UNCHANGED <<environ, total_requests, req, api_key, extracted, tmp,
                   result, start_requests, entry_requests, prev, attempts, hist, appvars>>

\* variant: the handler tries the same provider again
CatchRetries(c) ==
    /\ pc[c] = "raised"
    /\ IF Catches(exc[c])
       THEN /\ pc' = [pc EXCEPT ![c] = "gate"]
            /\ exc' = [exc EXCEPT ![c] = NoExc]
            /\ trace' = [trace EXCEPT ![c][Chain[idx[c]]] = "failed"]
            /\ reply' = [reply EXCEPT ![c] = NoReply]
            /\ sent' = [sent EXCEPT ![c] = NoSent]
            /\ UNCHANGED idx
       ELSE /\ pc' = [pc EXCEPT ![c] = "escaped"]
            /\ UNCHANGED <<idx, exc, trace, reply, sent>>
    /\ UNCHANGED <<environ, total_requests, req, api_key, extracted, tmp,
                   result, start_requests, entry_requests, prev, attempts, hist, appvars>>

\* `except Exception as e: print(...)`, then the next provider block; an
\* exception the clause does not match leaves completion
Catch(c) ==
    /\ pc[c] = "raised"
    /\ IF Catches(exc[c])
       THEN /\ pc' = [pc EXCEPT ![c] = "gate"]
            /\ idx' = [idx EXCEPT ![c] = idx[c] + 1]
            /\ exc' = [exc EXCEPT ![c] = NoExc]
            /\ trace' = [trace EXCEPT ![c][Chain[idx[c]]] = "failed"]
            /\ reply' = [reply EXCEPT ![c] = NoReply]
            /\ sent' = [sent EXCEPT ![c] = NoSent]
       ELSE /\ pc' = [pc EXCEPT ![c] = "escaped"]
            /\ UNCHANGED <<idx, exc, trace, reply, sent>>
    /\ UNCHANGED <<environ, total_requests, req, api_key, extracted, tmp,
                   result, start_requests, entry_requests, prev, attempts, hist, appvars>>

\* variant: the exhausted call is counted as a request
NoProviderCounts(c) ==
    /\ pc[c] = "gate"
    /\ idx[c] > Len(Chain)
    /\ result' = [result EXCEPT ![c] = NoProviderResponse]
    /\ total_requests' = total_requests + 1
    /\ pc' = [pc EXCEPT ![c] = "returned"]
    /\ UNCHANGED <<environ, idx, req, api_key, reply, extracted,
                   tmp, exc, trace, start_requests, entry_requests, prev,
                   attempts, sent, hist, appvars>>

\* variant: the exhausted walk starts over instead of returning the sentinel
NoProviderPolls(c) ==
    /\ pc[c] = "gate"
    /\ idx[c] > Len(Chain)
    /\ idx' = [idx EXCEPT ![c] = 1]
    /\ trace' = [trace EXCEPT ![c] = NoTrace]
    /\ attempts' = [attempts EXCEPT ![c] = NoAttempts]
    /\ UNCHANGED <<environ, total_requests, pc, req, api_key, reply, extracted,
                   tmp, exc, result, start_requests, entry_requests, prev,
                   sent, hist, appvars>>

\* "# No API available": the sentinel dict
NoProvider(c) ==
    /\ pc[c] = "gate"
    /\ idx[c] > Len(Chain)
    /\ result' = [result EXCEPT ![c] = NoProviderResponse]
    /\ pc' = [pc EXCEPT ![c] = "returned"]
    /\ UNCHANGED <<environ, total_requests, idx, req, api_key, reply, extracted,
                   tmp, exc, trace, start_requests, entry_requests, prev,
                   attempts, sent, hist, appvars>>

\* the caller takes the returned dict; the frame of completion is gone
FinishFrame(c) ==
    /\ pc[c] = "returned"
    /\ prev' = [valid |-> TRUE, response |-> result[c],
                all_absent |-> AllAbsent(environ),
                delta |-> total_requests - start_requests[c]]
    /\ pc' = [pc EXCEPT ![c] = "idle"]
    /\ idx' = [idx EXCEPT ![c] = 1]
    /\ req' = [req EXCEPT ![c] = NoRequest]
    /\ api_key' = [api_key EXCEPT ![c] = None]
    /\ reply' = [reply EXCEPT ![c] = NoReply]
    /\ extracted' = [extracted EXCEPT ![c] = NoExtracted]
    /\ tmp' = [tmp EXCEPT ![c] = 0]
    /\ result' = [result EXCEPT ![c] = NoResult]
    /\ trace' = [trace EXCEPT ![c] = NoTrace]
    /\ start_requests' = [start_requests EXCEPT ![c] = 0]
    /\ entry_requests' = [entry_requests EXCEPT ![c] = 0]
    /\ attempts' = [attempts EXCEPT ![c] = NoAttempts]
    /\ sent' = [sent EXCEPT ![c] = NoSent]
    /\ UNCHANGED <<environ, total_requests, exc>>

\* return to the caller
Finish(c) == FinishFrame(c) /\ UNCHANGED <<hist, appvars>>

\* return to the caller, the walk of the finished call being remembered
FinishRecorded(c) == FinishFrame(c) /\ hist' = trace[c] /\ UNCHANGED appvars

Next ==
    \/ \E v \in EnvVars : \E val \in SeqEnvValues(v) : SetEnv(v, val)
    \/ \E c \in SeqCallers : \E r \in Requests : Begin(c, r)
    \/ \E c \in SeqCallers : Gate(c)
    \/ \E c \in SeqCallers : CallRaises(c)
    \/ \E c \in SeqCallers : CallReplies(c)
    \/ \E c \in SeqCallers : IncrRead(c)
    \/ \E c \in SeqCallers : IncrWrite(c)
    \/ \E c \in SeqCallers : ExtractText(c)
    \/ \E c \in SeqCallers : Return(c)
    \/ \E c \in SeqCallers : Catch(c)
    \/ \E c \in SeqCallers : NoProvider(c)
    \/ \E c \in SeqCallers : Finish(c)

Spec == Init /\ [][Next]_vars

TypeOK ==
    /\ total_requests \in 0..(MaxRequests + 4)
    /\ \A c \in Callers : idx[c] \in 1..(Len(Chain) + 1)

\* --------------------------------------------------------------------------
\* Single calls with varied arguments, every credential being set
\* --------------------------------------------------------------------------

HintCores == { <<"l","l","a","m","a">>, <<"L","l","a","m","a">>, <<"L","L","A","M","A">>, <<"c","o","d","e">>, <<"C","o","d","e">>, <<"C","O","D","E">>, <<"g","p","t">>, <<"l","a","m","a">>, <<"c","o","d">>, <<"m","i","x","t","r","a","l">> }

\* model hints built around a core word
WideHints ==
    ModelHints \cup
    { pre \o core \o suf :
        pre \in { <<>>, <<"m","y","/">> }, core \in HintCores, suf \in { <<>>, <<"-","7","b">> } }

TokenValues == { NoInt, SomeInt(0), SomeInt(1), SomeInt(100), SomeInt(2000), SomeInt(3000) }

Turns == { Turn(role, content) :
             role \in {"system", "user", "assistant"}, content \in { <<"a">>, <<"b","c">> } }

\* conversations of one to MaxTurns turns
Conversations == UNION { [1..n -> Turns] : n \in 1..MaxTurns }

\* requests that vary one argument at a time
ReqRequests ==
    [model : WideHints, max_tokens : {NoInt}, messages : {DefaultConversation}]
    \cup [model : {TOGETHER_DEFAULT_MODEL}, max_tokens : TokenValues, messages : {DefaultConversation}]
    \cup [model : {TOGETHER_DEFAULT_MODEL}, max_tokens : {NoInt}, messages : Conversations]

\* a process started with every credential variable set
InitReq ==
    /\ environ = [v \in EnvVars |-> Str(KeyOf[v])]
    /\ InitGateway

\* one completion call
NextReq ==
    \/ \E c \in SeqCallers : \E r \in ReqRequests : Begin(c, r)
    \/ \E c \in SeqCallers : Gate(c)
    \/ \E c \in SeqCallers : CallRaises(c)
    \/ \E c \in SeqCallers : CallReplies(c)
    \/ \E c \in SeqCallers : IncrRead(c)
    \/ \E c \in SeqCallers : IncrWrite(c)
    \/ \E c \in SeqCallers : ExtractText(c)
    \/ \E c \in SeqCallers : Return(c)
    \/ \E c \in SeqCallers : Catch(c)
    \/ \E c \in SeqCallers : NoProvider(c)

SpecReq == InitReq /\ [][NextReq]_vars

\* --------------------------------------------------------------------------
\* Successive calls, the walk of the previous call being remembered
\* --------------------------------------------------------------------------

\* credential variables the deployment changes between calls
HistEnvVars == {"GROQ_API_KEY", "TOGETHER_API_KEY", "GOOGLE_API_KEY", "HF_API_KEY"}

HistRequests == [model : {TOGETHER_DEFAULT_MODEL}, max_tokens : {NoInt},
                 messages : {DefaultConversation}]

NextHist ==
    \/ \E v \in HistEnvVars : \E val \in SeqEnvValues(v) : SetEnv(v, val)
    \/ \E c \in SeqCallers : \E r \in HistRequests : Begin(c, r)
    \/ \E c \in SeqCallers : Gate(c)
    \/ \E c \in SeqCallers : CallRaises(c)
    \/ \E c \in SeqCallers : CallReplies(c)
    \/ \E c \in SeqCallers : IncrRead(c)
    \/ \E c \in SeqCallers : IncrWrite(c)
    \/ \E c \in SeqCallers : ExtractText(c)
    \/ \E c \in SeqCallers : Return(c)
    \/ \E c \in SeqCallers : Catch(c)
    \/ \E c \in SeqCallers : NoProvider(c)
    \/ \E c \in SeqCallers : FinishRecorded(c)

SpecHist == Init /\ [][NextHist]_vars

\* --------------------------------------------------------------------------
\* Two threads calling completion on the shared gateway at the same time
\* --------------------------------------------------------------------------

\* a process started with the groq and together credentials
InitConc ==
    /\ environ = [v \in EnvVars |->
                    IF v \in {"GROQ_API_KEY", "TOGETHER_API_KEY"} THEN Str(KeyOf[v]) ELSE None]
    /\ InitGateway

\* the steps of the two calls interleave freely
NextConc ==
    \/ \E c \in Callers : \E r \in HistRequests : Begin(c, r)
    \/ \E c \in Callers : Gate(c)
    \/ \E c \in Callers : CallRaises(c)
    \/ \E c \in Callers : CallReplies(c)
    \/ \E c \in Callers : IncrRead(c)
    \/ \E c \in Callers : IncrWrite(c)
    \/ \E c \in Callers : ExtractText(c)
    \/ \E c \in Callers : Return(c)
    \/ \E c \in Callers : Catch(c)
    \/ \E c \in Callers : NoProvider(c)

SpecConc == InitConc /\ [][NextConc]_vars

\* --------------------------------------------------------------------------
\* Deployments that set credential variables to the empty string
\* --------------------------------------------------------------------------

\* absent, set to the empty string, or set to a key
EnvValuesWithEmpty(v) == {None, Str(""), Str(KeyOf[v])}

\* the variable of a single-variable provider and the two pairs
EmptyEnvVars == {"GROQ_API_KEY", "GEMINI_API_KEY", "GOOGLE_API_KEY",
                 "HUGGINGFACE_API_KEY", "HF_API_KEY"}

NextEnv ==
    \/ \E v \in EmptyEnvVars : \E val \in EnvValuesWithEmpty(v) : SetEnv(v, val)
    \/ \E c \in SeqCallers : \E r \in HistRequests : Begin(c, r)
    \/ \E c \in SeqCallers : Gate(c)
    \/ \E c \in SeqCallers : CallRaises(c)
    \/ \E c \in SeqCallers : CallReplies(c)
    \/ \E c \in SeqCallers : IncrRead(c)
    \/ \E c \in SeqCallers : IncrWrite(c)
    \/ \E c \in SeqCallers : ExtractText(c)
    \/ \E c \in SeqCallers : Return(c)
    \/ \E c \in SeqCallers : Catch(c)
    \/ \E c \in SeqCallers : NoProvider(c)
    \/ \E c \in SeqCallers : Finish(c)

SpecEnv == Init /\ [][NextEnv]_vars

\* --------------------------------------------------------------------------
\* Calls that are not abandoned: the thread inside completion keeps running,
\* and a provider call that was made returns or raises
\* --------------------------------------------------------------------------

\* one credential variable per provider
LiveEnvVars == {"GROQ_API_KEY", "TOGETHER_API_KEY", "GOOGLE_API_KEY", "HF_API_KEY",
                "OPENAI_API_KEY"}

\* the steps of a running completion call
CompletionStep(c) ==
    \/ Gate(c)
    \/ CallRaises(c)
    \/ CallReplies(c)
    \/ IncrRead(c)
    \/ IncrWrite(c)
    \/ ExtractText(c)
    \/ Return(c)
    \/ Catch(c)
    \/ NoProvider(c)

NextLive ==
    \/ \E v \in LiveEnvVars : \E val \in SeqEnvValues(v) : SetEnv(v, val)
    \/ \E c \in SeqCallers : \E r \in HistRequests : Begin(c, r)
    \/ \E c \in SeqCallers : CompletionStep(c)
    \/ \E c \in SeqCallers : Finish(c)

SpecLive == Init /\ [][NextLive]_vars /\ \A c \in SeqCallers : WF_vars(CompletionStep(c))

\* --------------------------------------------------------------------------
\* get_llm_gateway called by several threads
\* --------------------------------------------------------------------------

\* `if _gateway_instance is None:`; a thread that finds an object goes to the return
GetCheck(c) ==
    /\ get_pc[c] = "idle"
    /\ get_pc' = [get_pc EXCEPT ![c] = IF gateway_instance = 0 THEN "construct" ELSE "return"]
    /\ UNCHANGED <<gateway_instance, instance_requests, made, held>>
    /\ UNCHANGED nonsingletonvars

\* `LLMGateway()`: a new object whose stats['total_requests'] is 0
GetConstruct(c) ==
    /\ get_pc[c] = "construct"
    /\ instance_requests' = Append(instance_requests, 0)
    /\ made' = [made EXCEPT ![c] = Len(instance_requests) + 1]
    /\ get_pc' = [get_pc EXCEPT ![c] = "store"]
    /\ UNCHANGED <<gateway_instance, held>>
    /\ UNCHANGED nonsingletonvars

\* `_gateway_instance = <the new object>`
GetStore(c) ==
    /\ get_pc[c] = "store"
    /\ gateway_instance' = made[c]
    /\ made' = [made EXCEPT ![c] = 0]
    /\ get_pc' = [get_pc EXCEPT ![c] = "return"]
    /\ UNCHANGED <<instance_requests, held>>
    /\ UNCHANGED nonsingletonvars

\* `return _gateway_instance`: the global is read again
GetReturn(c) ==
    /\ get_pc[c] = "return"
    /\ held' = [held EXCEPT ![c] = gateway_instance]
    /\ get_pc' = [get_pc EXCEPT ![c] = "idle"]
    /\ UNCHANGED <<gateway_instance, instance_requests, made>>
    /\ UNCHANGED nonsingletonvars

\* a consumer completes a request on the gateway it holds, which counts it
Consume(c) ==
    /\ get_pc[c] = "idle"
    /\ held[c] # 0
    /\ instance_requests[held[c]] < MaxRequests
    /\ instance_requests' = [instance_requests EXCEPT ![held[c]] = @ + 1]
    /\ UNCHANGED <<gateway_instance, get_pc, made, held>>
    /\ UNCHANGED nonsingletonvars

NextSingleton ==
    \/ \E c \in Callers : GetCheck(c)
    \/ \E c \in Callers : GetConstruct(c)
    \/ \E c \in Callers : GetStore(c)
    \/ \E c \in Callers : GetReturn(c)
    \/ \E c \in Callers : Consume(c)

SpecSingleton == Init /\ [][NextSingleton]_vars

\* --------------------------------------------------------------------------
\* CodeGenerator.generate_code
\* --------------------------------------------------------------------------

\* generate_code calls are started only while the history is shorter than this
MaxGenerations == 2

BUILT_IN_MODEL == <<"t","e","m","p","l","a","t","e","-","b","a","s","e","d">>

\* the dict generate_code returns and appends to its history
GenResult(code, language, problem, iteration, provider, model) ==
    [success |-> TRUE, code |-> code, language |-> language,
     problem_statement |-> problem, iteration |-> iteration,
     provider |-> provider, model |-> model]

\* completion(messages=[{"role": "user", "content": prompt}], model="gpt-4o-mini", temperature=0.3)
GenRequest(prompt) ==
    [model |-> <<"g","p","t","-","4","o","-","m","i","n","i">>, max_tokens |-> NoInt, messages |-> <<Turn("user", prompt)>>]

\* "# Post-process: Strip comments if requested"
PostProcess(code, language, include_comments) ==
    IF include_comments THEN code ELSE StripComments(code, language)

\* CodeGenerator.__init__
NewCodeGenerator(gw) ==
    /\ gen_pc = "idle"
    /\ llm_gateway # gw \/ generation_history # <<>>
    /\ llm_gateway' = gw
    /\ generation_history' = <<>>
    /\ gen_result' = NoGenResult
    /\ gen_seen' = NoGenSeen
    /\ UNCHANGED <<gen_pc, gen_frame>>
    /\ UNCHANGED <<gwvars, nongenvars>>

\* generate_code up to the call of the gateway, or to its end without a gateway
GenerateCode(c, problem, requested, iteration) ==
    /\ gen_pc = "idle"
    /\ pc[c] = "idle"
    /\ Len(generation_history) < MaxGenerations
    /\ llm_gateway # 0 => total_requests < MaxRequests
    /\ LET include_comments == IncludeComments(problem)
           language == ResolveLanguage(requested, problem)
           code == PostProcess(GenerateCompleteSolution(problem, language, iteration),
                               language, include_comments)
           res == GenResult(code, language, problem, iteration, "built-in", BUILT_IN_MODEL)
       IN IF llm_gateway # 0
          THEN /\ gen_pc' = "call"
               /\ gen_frame' = [problem |-> problem, requested |-> requested,
                                language |-> language, iteration |-> iteration,
                                include_comments |-> include_comments]
               /\ gen_seen' = [calls |-> gen_seen.calls + 1, requested |-> requested,
                               outcome |-> "", response |-> NoResult]
               /\ UNCHANGED <<generation_history, gen_result>>
          ELSE /\ generation_history' = Append(generation_history, res)
               /\ gen_result' = res
               /\ gen_seen' = [calls |-> gen_seen.calls + 1, requested |-> requested,
                               outcome |-> "no gateway", response |-> NoResult]
               /\ UNCHANGED <<gen_pc, gen_frame>>
    /\ UNCHANGED llm_gateway
    /\ UNCHANGED <<gwvars, nongenvars>>

\* `response = self.llm_gateway.completion(...)`: the call enters completion
GenCompletion(c) ==
    /\ gen_pc = "call"
    /\ Begin(c, GenRequest(BuildPrompt(gen_frame.problem, gen_frame.language,
                                       gen_frame.iteration, gen_frame.include_comments)))

\* the frame of completion is gone, by its return or by an exception
LeaveCompletion(c) ==
    /\ pc[c] \in {"returned", "escaped"}
    /\ prev' = IF pc[c] = "returned"
               THEN [valid |-> TRUE, response |-> result[c],
                     all_absent |-> AllAbsent(environ),
                     delta |-> total_requests - start_requests[c]]
               ELSE prev
    /\ pc' = [pc EXCEPT ![c] = "idle"]
    /\ idx' = [idx EXCEPT ![c] = 1]
    /\ req' = [req EXCEPT ![c] = NoRequest]
    /\ api_key' = [api_key EXCEPT ![c] = None]
    /\ reply' = [reply EXCEPT ![c] = NoReply]
    /\ extracted' = [extracted EXCEPT ![c] = NoExtracted]
    /\ tmp' = [tmp EXCEPT ![c] = 0]
    /\ exc' = [exc EXCEPT ![c] = NoExc]
    /\ result' = [result EXCEPT ![c] = NoResult]
    /\ trace' = [trace EXCEPT ![c] = NoTrace]
    /\ start_requests' = [start_requests EXCEPT ![c] = 0]
    /\ entry_requests' = [entry_requests EXCEPT ![c] = 0]
    /\ attempts' = [attempts EXCEPT ![c] = NoAttempts]
    /\ sent' = [sent EXCEPT ![c] = NoSent]
    /\ UNCHANGED <<environ, total_requests, hist>>

\* variant: the 'none' response is treated like a failed gateway call
GenReturnRejectsNone(c) ==
    /\ gen_pc = "call"
    /\ LeaveCompletion(c)
    /\ LET f == gen_frame
           raised == pc[c] = "escaped"
           handled == ~raised \/ IsSubclass(exc[c], "Exception")
           template == GenerateCompleteSolution(f.problem, f.language, f.iteration)
           use_template == raised \/ result[c].provider = "none"
           code == IF use_template THEN template
                   ELSE LLMCode(ExtractCode(Chars(result[c].choices[1].message.content)))
           res == GenResult(PostProcess(code, f.language, f.include_comments),
                            f.language, f.problem, f.iteration,
                            IF use_template THEN "built-in" ELSE result[c].provider,
                            IF use_template THEN BUILT_IN_MODEL ELSE result[c].model)
       IN /\ gen_seen' = [gen_seen EXCEPT !.outcome = IF raised THEN "raised" ELSE "returned",
                                          !.response = result[c]]
          /\ gen_frame' = NoGenFrame
          /\ IF handled
             THEN /\ generation_history' = Append(generation_history, res)
                  /\ gen_result' = res
                  /\ gen_pc' = "idle"
             ELSE /\ gen_pc' = "escaped"
                  /\ UNCHANGED <<generation_history, gen_result>>
    /\ UNCHANGED llm_gateway
    /\ UNCHANGED nongenvars

\* generate_code from the return of completion on: the text of the response
\* becomes the code; `except Exception` replaces it by the template
GenReturn(c) ==
    /\ gen_pc = "call"
    /\ LeaveCompletion(c)
    /\ LET f == gen_frame
           raised == pc[c] = "escaped"
           handled == ~raised \/ IsSubclass(exc[c], "Exception")
           template == GenerateCompleteSolution(f.problem, f.language, f.iteration)
           code == IF raised THEN template
                   ELSE LLMCode(ExtractCode(Chars(result[c].choices[1].message.content)))
           res == GenResult(PostProcess(code, f.language, f.include_comments),
                            f.language, f.problem, f.iteration,
                            IF raised THEN "built-in" ELSE result[c].provider,
                            IF raised THEN BUILT_IN_MODEL ELSE result[c].model)
       IN /\ gen_seen' = [gen_seen EXCEPT !.outcome = IF raised THEN "raised" ELSE "returned",
                                          !.response = result[c]]
          /\ gen_frame' = NoGenFrame
          /\ IF handled
             THEN /\ generation_history' = Append(generation_history, res)
                  /\ gen_result' = res
                  /\ gen_pc' = "idle"
             ELSE /\ gen_pc' = "escaped"
                  /\ UNCHANGED <<generation_history, gen_result>>
    /\ UNCHANGED llm_gateway
    /\ UNCHANGED nongenvars

\* problem statements and languages of the callers
PLAIN_PROBLEM == <<"r","e","v","e","r","s","e"," ","a"," ","s","t","r","i","n","g">>

TERSE_PROBLEM == <<"S","o","r","t"," ","i","n"," ","J","a","v","a",","," ","n","o"," ","c","o","m","m","e","n","t","s">>

SHARP_PROBLEM == <<"s","u","m"," ","i","n"," ","c","#">>

GenProblems == { PLAIN_PROBLEM, TERSE_PROBLEM, SHARP_PROBLEM, <<"z","z","z">> }

GenLanguages ==
    { NoLanguage, Language(<<"p","y","t","h","o","n">>), Language(<<"P","y","t","h","o","n">>), Language(<<"c","o","b","o","l">>),
      Language(<<"C","+","+">>), Language(<<>>) }

\* a generator without gateway, as test_full_code.py and test_code_gen.py build it
NextTemplate ==
    \/ NewCodeGenerator(0)
    \/ \E c \in SeqCallers : \E p \in GenProblems : \E l \in GenLanguages :
          \E it \in {0, 1} : GenerateCode(c, p, l, it)

SpecTemplate == Init /\ [][NextTemplate]_vars

\* credential variables the deployment changes between generate_code calls
GenEnvVars == {"GROQ_API_KEY", "OPENAI_API_KEY"}

\* a generator with or without the gateway
NextGen ==
    \/ \E gw \in {0, 1} : NewCodeGenerator(gw)
    \/ \E v \in GenEnvVars : \E val \in SeqEnvValues(v) : SetEnv(v, val)
    \/ \E c \in SeqCallers :
          \/ GenerateCode(c, PLAIN_PROBLEM, NoLanguage, 0)
          \/ GenerateCode(c, TERSE_PROBLEM, Language(<<"c","o","b","o","l">>), 0)
    \/ \E c \in SeqCallers : GenCompletion(c)
    \/ \E c \in SeqCallers : CompletionStep(c)
    \/ \E c \in SeqCallers : GenReturn(c)

SpecGen == Init /\ [][NextGen]_vars

\* --------------------------------------------------------------------------
\* VisualizationGenerator.generate_trace
\* --------------------------------------------------------------------------

\* generate_trace calls are started only while fewer than this have been made
MaxTraces == 2

\* opening line of the system prompt, whose text does not vary
TRACE_SYSTEM_PROMPT == <<"Y","o","u"," ","a","r","e"," ","a","n"," ","A","l","g","o","r","i","t","h","m"," ","V","i","s","u","a","l","i","z","e","r","."," ">>

\* opening line of the system prompt of the retry
RETRY_SYSTEM_PROMPT == <<"Y","o","u"," ","a","r","e"," ","a"," ","C","o","d","e"," ","S","i","m","u","l","a","t","o","r",".">>

\* completion(messages=messages, temperature=0.1, max_tokens=3000)
TraceRequest(code, language, problem_type) ==
    [model |-> TOGETHER_DEFAULT_MODEL, max_tokens |-> SomeInt(3000),
     messages |-> << Turn("system", TRACE_SYSTEM_PROMPT),
                     Turn("user", <<"\n","L","a","n","g","u","a","g","e",":"," ">> \o language
                                  \o <<"\n","P","r","o","b","l","e","m"," ","T","y","p","e",":"," ">> \o problem_type
                                  \o <<" ","(","I","f"," ","g","e","n","e","r","i","c",","," ","p","l","e","a","s","e"," ","I","N","F","E","R"," ","t","h","e"," ","d","a","t","a"," ","s","t","r","u","c","t","u","r","e"," ","f","r","o","m"," ","c","o","d","e",")","\n","\n","C","o","d","e",":","\n">>
                                  \o code
                                  \o <<"\n","\n","G","e","n","e","r","a","t","e"," ","t","h","e"," ","J","S","O","N"," ","e","x","e","c","u","t","i","o","n"," ","t","r","a","c","e"," ","n","o","w",".","\n">>) >>]

\* completion(retry_messages, temperature=0.2, max_tokens=3000)
RetryRequest(code) ==
    [model |-> TOGETHER_DEFAULT_MODEL, max_tokens |-> SomeInt(3000),
     messages |-> << Turn("system", RETRY_SYSTEM_PROMPT),
                     Turn("user", <<"C","o","d","e",":","\n">> \o code
                                  \o <<"\n","\n","E","R","R","O","R",":"," ","Y","o","u"," ","f","a","i","l","e","d"," ","t","o"," ","o","u","t","p","u","t"," ","J","S","O","N"," ","l","a","s","t"," ","t","i","m","e","."," ","S","I","M","U","L","A","T","E"," ","T","H","I","S"," ","C","O","D","E"," ","N","O","W",".">>) >>]

\* the values generate_trace returns
VizResult(kind, visualization_type, json) ==
    [kind |-> kind, visualization_type |-> visualization_type, json |-> json]

\* {"error": "LLM Gateway not available"}
NoGatewayTrace == VizResult("no gateway", "", <<>>)

\* "# 4. Final Fallback": the static trace
StaticTrace(problem_type) ==
    VizResult("static",
              IF Contains(<<"t","r","e","e">>, problem_type) THEN "tree" ELSE "generic", <<>>)

\* the trace returned by the outer `except Exception as e`
ErrorTrace == VizResult("error", "generic", <<>>)

\* content[first_brace:last_brace+1] given to json.loads, when both braces exist
BraceExtract(content) ==
    LET opens == { i \in 1..Len(content) : content[i] = "{" }
        closes == { i \in 1..Len(content) : content[i] = "}" }
    IN IF opens = {} \/ closes = {} THEN [ok |-> FALSE, value |-> <<>>]
       ELSE JsonLoads(SubSeq(content, MinOf(opens), MaxOf(closes)))

\* `if "class" in code or "def" in code`
StaticCode(code) ==
    Contains(<<"c","l","a","s","s">>, code) \/ Contains(<<"d","e","f">>, code)

\* VisualizationGenerator.__init__
NewVisualizationGenerator(gw) ==
    /\ viz_pc = "idle"
    /\ viz_gateway # gw \/ viz_seen # NoVizSeen
    /\ viz_gateway' = gw
    /\ viz_frame' = NoVizFrame
    /\ viz_result' = NoVizResult
    /\ viz_seen' = NoVizSeen
    /\ UNCHANGED viz_pc
    /\ UNCHANGED <<gwvars, nonvizvars>>

\* generate_trace up to its first call of the gateway, or to its return without one
GenerateTrace(c, code, language, problem_type) ==
    /\ viz_pc = "idle"
    /\ pc[c] = "idle"
    /\ viz_seen.traces < MaxTraces
    /\ viz_gateway # 0 => total_requests < MaxRequests
    /\ viz_seen' = [traces |-> viz_seen.traces + 1, code |-> code, calls |-> 0,
                    first |-> "", retried |-> FALSE]
    /\ IF viz_gateway = 0
       THEN /\ viz_result' = NoGatewayTrace
            /\ UNCHANGED <<viz_pc, viz_frame>>
       ELSE /\ viz_pc' = "first"
            /\ viz_frame' = [code |-> code, language |-> language,
                             problem_type |-> problem_type, calls |-> 0]
            /\ UNCHANGED viz_result
    /\ UNCHANGED viz_gateway
    /\ UNCHANGED <<gwvars, nonvizvars>>

\* `self.llm_gateway.completion(...)`: the first call or the retry enters completion
TraceCompletion(c) ==
    /\ viz_pc \in {"first", "retry"}
    /\ Begin(c, IF viz_pc = "first"
                THEN TraceRequest(viz_frame.code, viz_frame.language, viz_frame.problem_type)
                ELSE RetryRequest(viz_frame.code))

\* texts a chat model answers a trace request with
TraceTexts == { "{\"steps\": []}", "Trace: {\"steps\": []} ok", "{oops}", "} {", "hello", "[]" }

\* the provider call returns a chat reply carrying one of the trace texts
CallRepliesTrace(c) ==
    /\ pc[c] = "adapter"
    /\ Chain[idx[c]] \in {"groq", "together", "openai"}
    /\ \E t \in TraceTexts :
          reply' = [reply EXCEPT ![c] = Reply("chat", <<Message(t)>>, "", FALSE, <<>>, FALSE)]
    /\ sent' = [sent EXCEPT ![c] = Sent(Chain[idx[c]], req[c])]
    /\ pc' = [pc EXCEPT ![c] = AfterReply(Chain[idx[c]])]
    /\ UNCHANGED <<environ, total_requests, idx, req, api_key, extracted, tmp,
                   exc, result, trace, start_requests, entry_requests, prev,
                   attempts, hist, appvars>>

\* variant: the retry is made whatever the code holds
TraceReturnAlwaysRetries(c) ==
    /\ viz_pc = "first"
    /\ LeaveCompletion(c)
    /\ LET f == viz_frame
           raised == pc[c] = "escaped"
           handled == ~raised \/ IsSubclass(exc[c], "Exception")
           content == Chars(result[c].choices[1].message.content)
           whole == JsonLoads(Strip(content))
           braces == BraceExtract(content)
           first == IF raised THEN "raised" ELSE IF whole.ok THEN "whole"
                    ELSE IF braces.ok THEN "braces" ELSE "none"
           retry == first = "none"
       IN /\ viz_seen' = [viz_seen EXCEPT !.calls = 1, !.first = first, !.retried = retry]
          /\ viz_pc' = IF ~handled THEN "escaped" ELSE IF retry THEN "retry" ELSE "idle"
          /\ viz_frame' = IF retry THEN [f EXCEPT !.calls = 1] ELSE NoVizFrame
          /\ viz_result' = IF ~handled \/ retry THEN viz_result
                           ELSE IF raised THEN ErrorTrace
                           ELSE IF whole.ok THEN VizResult("json", "", whole.value)
                           ELSE IF braces.ok THEN VizResult("json", "", braces.value)
                           ELSE StaticTrace(f.problem_type)
    /\ UNCHANGED viz_gateway
    /\ UNCHANGED nonvizvars

\* generate_trace from the return of its first completion call on: the three
\* ways to read JSON out of the reply, then the retry or the static trace
TraceReturn(c) ==
    /\ viz_pc = "first"
    /\ LeaveCompletion(c)
    /\ LET f == viz_frame
           raised == pc[c] = "escaped"
           handled == ~raised \/ IsSubclass(exc[c], "Exception")
           content == Chars(result[c].choices[1].message.content)
           whole == JsonLoads(Strip(content))
           braces == BraceExtract(content)
           first == IF raised THEN "raised" ELSE IF whole.ok THEN "whole"
                    ELSE IF braces.ok THEN "braces" ELSE "none"
           retry == first = "none" /\ StaticCode(f.code)
       IN /\ viz_seen' = [viz_seen EXCEPT !.calls = 1, !.first = first, !.retried = retry]
          /\ viz_pc' = IF ~handled THEN "escaped" ELSE IF retry THEN "retry" ELSE "idle"
          /\ viz_frame' = IF retry THEN [f EXCEPT !.calls = 1] ELSE NoVizFrame
          /\ viz_result' = IF ~handled \/ retry THEN viz_result
                           ELSE IF raised THEN ErrorTrace
                           ELSE IF whole.ok THEN VizResult("json", "", whole.value)
                           ELSE IF braces.ok THEN VizResult("json", "", braces.value)
                           ELSE StaticTrace(f.problem_type)
    /\ UNCHANGED viz_gateway
    /\ UNCHANGED nonvizvars

\* generate_trace from the return of the retry on: the braces of the reply hold
\* JSON, or `except Exception as retry_err` and the static trace
RetryReturn(c) ==
    /\ viz_pc = "retry"
    /\ LeaveCompletion(c)
    /\ LET f == viz_frame
           raised == pc[c] = "escaped"
           handled == ~raised \/ IsSubclass(exc[c], "Exception")
           braces == IF raised THEN [ok |-> FALSE, value |-> <<>>]
                     ELSE BraceExtract(Chars(result[c].choices[1].message.content))
       IN /\ viz_seen' = [viz_seen EXCEPT !.calls = 2]
          /\ viz_pc' = IF handled THEN "idle" ELSE "escaped"
          /\ viz_frame' = NoVizFrame
          /\ viz_result' = IF ~handled THEN viz_result
                           ELSE IF braces.ok THEN VizResult("json", "", braces.value)
                           ELSE StaticTrace(f.problem_type)
    /\ UNCHANGED viz_gateway
    /\ UNCHANGED nonvizvars

\* code and problem types the /api/visualize route passes on
TraceCodes ==
    { <<"d","e","f"," ","f","(",")",":"," ","p","a","s","s">>,
      <<"x"," ","="," ","[","3",","," ","1","]">>,
      <<"c","l","a","s","s"," ","A",":"," ","p","a","s","s">> }

TraceProblemTypes == { <<"g","e","n","e","r","i","c">>, <<"b","i","n","a","r","y"," ","t","r","e","e">> }

\* credential variables the deployment changes between generate_trace calls
VizEnvVars == {"GROQ_API_KEY", "OPENAI_API_KEY"}

NextViz ==
    \/ \E gw \in {0, 1} : NewVisualizationGenerator(gw)
    \/ \E v \in VizEnvVars : \E val \in SeqEnvValues(v) : SetEnv(v, val)
    \/ \E c \in SeqCallers : \E code \in TraceCodes : \E pt \in TraceProblemTypes :
          GenerateTrace(c, code, PYTHON, pt)
    \/ \E c \in SeqCallers : TraceCompletion(c)
    \/ \E c \in SeqCallers : CompletionStep(c)
    \/ \E c \in SeqCallers : CallRepliesTrace(c)
    \/ \E c \in SeqCallers : TraceReturn(c)
    \/ \E c \in SeqCallers : RetryReturn(c)

SpecViz == Init /\ [][NextViz]_vars

\* --------------------------------------------------------------------------
\* AgenticPlatform: conversations and their counters
\* --------------------------------------------------------------------------

\* conversations are created only while fewer than this are stored
MaxConversations == 3

\* cancel and translate calls are made only while the active counter is above
\* minus this
MaxDeficit == 2

ConversationIds == 1..(MaxConversations + 1)

\* AgenticPlatform.create_conversation
CreateConversation ==
    /\ Len(conversations) < MaxConversations
    /\ conversations' = Append(conversations, [status |-> "created", translated |-> FALSE])
    /\ stats' = [stats EXCEPT !.total_conversations = @ + 1,
                              !.active_conversations = @ + 1]
    /\ UNCHANGED nonplatformvars

\* AgenticPlatform.cancel_conversation
CancelConversation(id) ==
    /\ stats.active_conversations > 0 - MaxDeficit
    /\ IF id \in DOMAIN conversations
       THEN /\ conversations' = [conversations EXCEPT ![id].status = "cancelled"]
            /\ stats' = [stats EXCEPT !.active_conversations = @ - 1]
       ELSE UNCHANGED <<conversations, stats>>
    /\ UNCHANGED nonplatformvars

\* AgenticPlatform.translate_code; validate_input accepts every input
TranslateCode(id) ==
    /\ stats.active_conversations > 0 - MaxDeficit
    /\ IF id \in DOMAIN conversations
       THEN /\ conversations' = [conversations EXCEPT ![id].status = "completed",
                                                      ![id].translated = TRUE]
            /\ stats' = [stats EXCEPT !.active_conversations = @ - 1]
       ELSE UNCHANGED <<conversations, stats>>
    /\ UNCHANGED nonplatformvars

\* the conversation routes of the API server
NextPlatform ==
    \/ CreateConversation
    \/ \E id \in ConversationIds : CancelConversation(id)
    \/ \E id \in ConversationIds : TranslateCode(id)

SpecPlatform == Init /\ [][NextPlatform]_vars

\* --------------------------------------------------------------------------
\* database.py: the tables users and active_sessions
\* --------------------------------------------------------------------------

\* NULL in the column user_id
NullId == 0

UserNames == {"admin", "ann", "bob"}

Passwords == {"admin", "pw", "bad"}

Phones == {"0000000000", "555"}

\* ids block_user, unblock_user and add_session are called with
UserIds == 1..Cardinality(UserNames)

\* rows of active_sessions left by DELETE ... WHERE <keep fails>
DeleteWhere(rows, gone(_)) == SelectSeq(rows, LAMBDA r : ~gone(r))

\* add_user: refused when the username or the phone is taken
AddUser(username, password, phone) ==
    /\ \A i \in DOMAIN users : users[i].username # username /\ users[i].phone # phone
    /\ users' = Append(users, [username |-> username, password |-> password,
                               phone |-> phone, is_blocked |-> FALSE])
    /\ UNCHANGED active_sessions
    /\ UNCHANGED nondbvars

\* verify_user
VerifyUser(username, password) ==
    IF username = "admin" /\ password = "admin" THEN [valid |-> TRUE, blocked |-> FALSE]
    ELSE IF \E i \in DOMAIN users : users[i].username = username /\ users[i].password = password
    THEN [valid |-> TRUE,
          blocked |-> \E i \in DOMAIN users : users[i].username = username /\ users[i].is_blocked]
    ELSE [valid |-> FALSE, blocked |-> FALSE]

\* variant: the new row is inserted without deleting the old one
AddSessionAppends(user_id, username) ==
    /\ active_sessions' = Append(active_sessions, [user_id |-> user_id, username |-> username])
    /\ UNCHANGED users
    /\ UNCHANGED nondbvars

\* add_session: DELETE ... WHERE username = ?, then INSERT
AddSession(user_id, username) ==
    /\ active_sessions' =
          Append(DeleteWhere(active_sessions, LAMBDA r : r.username = username),
                 [user_id |-> user_id, username |-> username])
    /\ UNCHANGED users
    /\ UNCHANGED nondbvars

\* the login route past the superuser check: verify_user, then add_session(None, username)
Login(username, password) ==
    /\ VerifyUser(username, password).valid
    /\ ~VerifyUser(username, password).blocked
    /\ AddSession(NullId, username)

\* remove_session: DELETE ... WHERE username = ?
RemoveSession(username) ==
    /\ active_sessions' = DeleteWhere(active_sessions, LAMBDA r : r.username = username)
    /\ UNCHANGED users
    /\ UNCHANGED nondbvars

\* block_user: UPDATE users ... WHERE id = ?, then DELETE ... WHERE user_id = ?;
\* a NULL user_id equals no id
BlockUser(user_id) ==
    /\ users' = [i \in DOMAIN users |->
                    IF i = user_id THEN [users[i] EXCEPT !.is_blocked = TRUE] ELSE users[i]]
    /\ active_sessions' =
          DeleteWhere(active_sessions, LAMBDA r : r.user_id # NullId /\ r.user_id = user_id)
    /\ UNCHANGED nondbvars

\* unblock_user
UnblockUser(user_id) ==
    /\ users' = [i \in DOMAIN users |->
                    IF i = user_id THEN [users[i] EXCEPT !.is_blocked = FALSE] ELSE users[i]]
    /\ UNCHANGED active_sessions
    /\ UNCHANGED nondbvars

\* the routes of auth.py and the functions of database.py they call
NextDb ==
    \/ \E u \in UserNames : \E p \in {"pw"} : \E ph \in Phones : AddUser(u, p, ph)
    \/ \E u \in UserNames : \E p \in Passwords : Login(u, p)
    \/ \E id \in UserIds \cup {NullId} : \E u \in UserNames : AddSession(id, u)
    \/ \E u \in UserNames : RemoveSession(u)
    \/ \E id \in UserIds : BlockUser(id)
    \/ \E id \in UserIds : UnblockUser(id)

SpecDb == Init /\ [][NextDb]_vars

\* --------------------------------------------------------------------------
\* Vocabulary of the properties
\* --------------------------------------------------------------------------

\* the priority order the specification states
PriorityOrder == <<"groq", "together", "gemini", "huggingface", "openai">>

CredPresent(p) == Truthy(GetKey(p, environ))

Returned(c) == pc[c] = "returned"

Content(r) == r.choices[1].message.content

InAdapter(c) == pc[c] \in {"adapter", "incr_read", "incr_write", "extract", "build", "raised"}

\* --------------------------------------------------------------------------
\* C1: whatever the credentials and whatever each provider does (a reply, or
\* an exception at import, construction, request, HTTP status or while reading
\* a malformed reply), no exception leaves completion, and what completion
\* returns is a response.
\* --------------------------------------------------------------------------
C1_NeverPropagates ==
    \A c \in Callers :
        /\ pc[c] # "escaped"
        /\ pc[c] = "raised" => Catches(exc[c])
        /\ Returned(c) => /\ result[c] # NoResult
                          /\ result[c].provider \in Providers \cup {"none"}

\* a call has returned after two providers raised
C1_Witness ==
    \E c \in Callers :
        /\ Returned(c)
        /\ Cardinality({p \in Providers : trace[c][p] = "failed"}) >= 2

\* --------------------------------------------------------------------------
\* C2: providers are tried in the order groq, together, gemini, huggingface,
\* openai; when a provider with a credential has succeeded, the response
\* carries the tag of the highest-priority such provider, never 'none'.
\* --------------------------------------------------------------------------
C2_FirstSuccessWins ==
    \A c \in Callers : Returned(c) =>
        \A i \in 1..Len(PriorityOrder) :
            trace[c][PriorityOrder[i]] = "ok" =>
                /\ CredPresent(PriorityOrder[i])
                /\ result[c].provider = PriorityOrder[i]
                /\ result[c].provider # "none"
                /\ \A j \in 1..(i - 1) :
                      trace[c][PriorityOrder[j]] \in {"skipped", "failed"}
                /\ \A j \in (i + 1)..Len(PriorityOrder) :
                      trace[c][PriorityOrder[j]] = "untried"

\* together answered after groq raised, with lower-priority credentials present
C2_Witness ==
    \E c \in Callers :
        /\ Returned(c)
        /\ trace[c]["groq"] = "failed"
        /\ trace[c]["together"] = "ok"
        /\ CredPresent("gemini")
        /\ result[c].provider = "together"

\* --------------------------------------------------------------------------
\* C3: the response has provider 'none' (and then model 'none') exactly when
\* each of the five providers was skipped for an absent credential or raised;
\* the provider field is never empty.
\* --------------------------------------------------------------------------
C3_NoneIffExhausted ==
    \A c \in Callers : Returned(c) =>
        /\ result[c].provider = "none" <=>
              \A p \in Providers :
                  \/ trace[c][p] = "skipped" /\ ~CredPresent(p)
                  \/ trace[c][p] = "failed" /\ CredPresent(p)
        /\ result[c].provider = "none" => result[c].model = NONE_MODEL
        /\ result[c].provider # ""

\* the sentinel was returned after some providers were skipped and others raised
C3_Witness ==
    \E c \in Callers :
        /\ Returned(c)
        /\ result[c].provider = "none"
        /\ \E p \in Providers : trace[c][p] = "skipped"
        /\ \E p \in Providers : trace[c][p] = "failed"

\* --------------------------------------------------------------------------
\* C4: a completion call that returns a provider other than 'none' has
\* increased total_requests by exactly 1, however the providers before the
\* successful one failed.
\* --------------------------------------------------------------------------
C4_ExactlyOncePerSuccess ==
    \A c \in Callers :
        Returned(c) /\ result[c].provider # "none" =>
            total_requests = start_requests[c] + 1

\* --------------------------------------------------------------------------
\* C5: an adapter invocation that ends by raising leaves total_requests as it
\* was when the adapter was entered, and a call that returns the 'none'
\* sentinel leaves total_requests as it was when the call started.
\* --------------------------------------------------------------------------
C5_RaiseLeavesCounter ==
    \A c \in Callers :
        /\ pc[c] = "raised" => total_requests = entry_requests[c]
        /\ Returned(c) /\ result[c].provider = "none" =>
              total_requests = start_requests[c]

\* --------------------------------------------------------------------------
\* C6: after a provider with a credential has raised, the same call goes on
\* to the next provider in priority order whose credential is present, and
\* nothing is re-raised; with groq raising and together succeeding the
\* response is together's.
\* --------------------------------------------------------------------------
C6_FailureFallsThrough ==
    \A c \in Callers :
        /\ pc[c] # "escaped"
        /\ Returned(c) =>
              /\ \A i \in 1..Len(PriorityOrder) : \A j \in (i + 1)..Len(PriorityOrder) :
                    ( /\ trace[c][PriorityOrder[i]] = "failed"
                      /\ CredPresent(PriorityOrder[j])
                      /\ \A k \in (i + 1)..(j - 1) : ~CredPresent(PriorityOrder[k]) )
                    => trace[c][PriorityOrder[j]] \in {"failed", "ok"}
              /\ ( /\ trace[c]["groq"] = "failed"
                   /\ trace[c]["together"] = "ok" )
                 => result[c].provider = "together"

\* groq raised, gemini (the next provider holding a credential) answered
C6_Witness ==
    \E c \in Callers :
        /\ Returned(c)
        /\ trace[c]["groq"] = "failed"
        /\ ~CredPresent("together")
        /\ trace[c]["gemini"] = "ok"
        /\ result[c].provider = "gemini"

\* --------------------------------------------------------------------------
\* C7: with no credential in the environment a call enters no adapter and
\* returns provider 'none', model 'none' and a non-empty content string.
\* --------------------------------------------------------------------------
C7_NoCredentialNoCall ==
    \A c \in Callers : AllAbsent(environ) =>
        /\ ~InAdapter(c)
        /\ Returned(c) =>
              /\ \A p \in Providers : trace[c][p] = "skipped"
              /\ result[c].provider = "none"
              /\ result[c].model = NONE_MODEL
              /\ Len(result[c].choices) = 1
              /\ Content(result[c]) # ""

\* a call has returned in an environment without credentials
C7_Witness ==
    \E c \in Callers :
        /\ Returned(c)
        /\ AllAbsent(environ)
        /\ result[c].provider = "none"

\* --------------------------------------------------------------------------
\* C8: an adapter is entered only with its credential present and after every
\* higher-priority provider was skipped (absent credential) or failed; a
\* provider without credential is never invoked; after an adapter returned,
\* no lower-priority adapter is invoked.  With only gemini's credential,
\* only gemini is called and the response is gemini's.
\* --------------------------------------------------------------------------
C8_InvokedOnlyInTurn ==
    \A c \in Callers : \A i \in 1..Len(PriorityOrder) :
        LET p == PriorityOrder[i]
            invoked == \/ trace[c][p] \in {"failed", "ok"}
                       \/ InAdapter(c) /\ Chain[idx[c]] = p
        IN /\ invoked =>
                /\ CredPresent(p)
                /\ \A j \in 1..(i - 1) :
                      \/ trace[c][PriorityOrder[j]] = "skipped" /\ ~CredPresent(PriorityOrder[j])
                      \/ trace[c][PriorityOrder[j]] = "failed"
           /\ trace[c][p] = "ok" =>
                \A j \in (i + 1)..Len(PriorityOrder) :
                    /\ trace[c][PriorityOrder[j]] = "untried"
                    /\ ~(InAdapter(c) /\ Chain[idx[c]] = PriorityOrder[j])
           /\ ( /\ Returned(c)
                /\ \A q \in Providers : CredPresent(q) <=> q = "gemini"
                /\ trace[c]["gemini"] = "ok" )
              => /\ result[c].provider = "gemini"
                 /\ \A q \in Providers \ {"gemini"} : trace[c][q] \in {"skipped", "untried"}

\* only the third provider holds a credential and it answered "hello"
C8_Witness ==
    \E c \in Callers :
        /\ Returned(c)
        /\ \A q \in Providers : CredPresent(q) <=> q = "gemini"
        /\ result[c].provider = "gemini"
        /\ Content(result[c]) = "hello"
        /\ trace[c]["groq"] = "skipped"
        /\ trace[c]["together"] = "skipped"

\* --------------------------------------------------------------------------
\* C9: two consecutive calls made with every credential absent return the
\* same sentinel, and the first of them left total_requests unchanged.
\* --------------------------------------------------------------------------
C9_SentinelIdempotent ==
    \A c \in Callers :
        ( /\ Returned(c)
          /\ AllAbsent(environ)
          /\ prev.valid
          /\ prev.all_absent )
        => /\ result[c] = prev.response
           /\ result[c].provider = "none"
           /\ prev.delta = 0
           /\ total_requests = start_requests[c]

\* the second of two such calls has returned
C9_Witness ==
    \E c \in Callers :
        /\ Returned(c)
        /\ AllAbsent(environ)
        /\ prev.valid
        /\ prev.all_absent
        /\ prev.response.provider = "none"
        /\ result[c] = prev.response

\* --------------------------------------------------------------------------
\* C10: when the native reply carries text T in its expected place
\* (choices[0].message.content for groq, together and openai, response.text
\* for gemini, generated_text of the first list element or of the dict for
\* huggingface), the content of the returned response is T.
\* --------------------------------------------------------------------------
C10_ContentVerbatim ==
    \A c \in Callers : Returned(c) =>
        LET r == reply[c]
            p == result[c].provider
        IN /\ ( /\ p \in {"groq", "together", "openai"}
                /\ Len(r.choices) > 0
                /\ r.choices[1].has_content )
              => Content(result[c]) = r.choices[1].content
           /\ (p = "gemini" /\ ~r.blocked) => Content(result[c]) = r.text
           /\ ( /\ p = "huggingface"
                /\ r.shape = "list"
                /\ Len(r.items) > 0
                /\ r.items[1].is_dict
                /\ r.items[1].has_text )
              => Content(result[c]) = r.items[1].generated_text
           /\ (p = "huggingface" /\ r.shape = "dict" /\ r.has_text)
              => Content(result[c]) = r.text
           /\ p # "none" => r # NoReply

\* huggingface answered a list of two generations; the first one is returned
C10_Witness ==
    \E c \in Callers :
        /\ Returned(c)
        /\ result[c].provider = "huggingface"
        /\ reply[c].shape = "list"
        /\ Len(reply[c].items) = 2
        /\ Content(result[c]) = "ok"

\* --------------------------------------------------------------------------
\* C11: whatever provider answered, or none, the returned value has the
\* fields choices, provider and model, a provider among groq, together,
\* gemini, huggingface, openai and none, a non-empty model, and exactly one
\* choice, which holds a message with a role and a content.
\* --------------------------------------------------------------------------
C11_CommonShape ==
    \A c \in Callers : Returned(c) =>
        /\ DOMAIN result[c] = {"choices", "provider", "model"}
        /\ result[c].provider \in {"groq", "together", "gemini", "huggingface", "openai", "none"}
        /\ Len(result[c].model) > 0
        /\ Len(result[c].choices) = 1
        /\ DOMAIN result[c].choices[1] = {"message"}
        /\ DOMAIN result[c].choices[1].message = {"role", "content"}

\* both shapes have been returned: the sentinel after openai's own reply
C11_Witness ==
    \E c \in Callers :
        /\ Returned(c)
        /\ result[c].provider = "none"
        /\ prev.valid
        /\ prev.response.provider = "openai"

\* --------------------------------------------------------------------------
\* C15: within one call every adapter is invoked at most once, a provider
\* that failed is not tried again, and at most five invocations are made.
\* --------------------------------------------------------------------------
C15_AtMostOncePerCall ==
    \A c \in Callers :
        /\ \A p \in Providers :
              /\ attempts[c][p] <= 1
              /\ trace[c][p] = "failed" =>
                    ~(InAdapter(c) /\ Chain[idx[c]] = p)
        /\ attempts[c]["groq"] + attempts[c]["together"] + attempts[c]["gemini"]
             + attempts[c]["huggingface"] + attempts[c]["openai"] <= 5

\* all five adapters were invoked, each once, and each raised
C15_Witness ==
    \E c \in Callers :
        /\ Returned(c)
        /\ \A p \in Providers : trace[c][p] = "failed" /\ attempts[c][p] = 1

\* --------------------------------------------------------------------------
\* C17: completion moves on to the next provider only after a raise (or an
\* absent credential): an adapter that gets as far as returning has its
\* response returned by completion at once, also when the text is empty.
\* --------------------------------------------------------------------------
C17_FallThroughOnlyOnRaise ==
    [][ \A c \in Callers :
          /\ pc[c] = "build" /\ pc'[c] # "build" =>
                /\ pc'[c] = "returned"
                /\ result'[c].provider = Chain[idx[c]]
                /\ Content(result'[c]) = extracted[c].text
          /\ (pc[c] # "idle" /\ idx'[c] = idx[c] + 1) =>
                \/ pc[c] = "raised"
                \/ pc[c] = "gate" /\ ~CredPresent(Chain[idx[c]])
          /\ ( /\ Returned(c)
               /\ result[c].provider # "none"
               /\ Content(result[c]) = "" )
             => \A i \in 1..Len(Chain) : \A j \in (i + 1)..Len(Chain) :
                    Chain[i] = result[c].provider => trace[c][Chain[j]] = "untried"
      ]_vars

\* huggingface returned an empty text and openai, holding a credential, was not tried
C17_Witness ==
    \E c \in Callers :
        /\ Returned(c)
        /\ result[c].provider = "huggingface"
        /\ Content(result[c]) = ""
        /\ CredPresent("openai")
        /\ trace[c]["openai"] = "untried"

\* --------------------------------------------------------------------------
\* C18: the model of a response is provider-specific: groq always reports
\* 'llama-3.3-70b-versatile', gemini 'gemini-pro', huggingface
\* 'mistralai/Mistral-7B-Instruct-v0.2', openai 'gpt-4o-mini', whatever the
\* hint; together reports the hint when the hint contains 'llama' or 'code'
\* in any letter case and 'meta-llama/Llama-3.3-70B-Instruct-Turbo' otherwise.
\* --------------------------------------------------------------------------
EqIgnoreCase(a, b) ==
    \/ a = b
    \/ a \in UpperCase /\ LowerOf[a] = b
    \/ b \in UpperCase /\ LowerOf[b] = a

ContainsIgnoreCase(word, s) ==
    \E i \in 1..(Len(s) - Len(word) + 1) :
        \A k \in 1..Len(word) : EqIgnoreCase(s[i + k - 1], word[k])

C18_ProviderSpecificModel ==
    \A c \in Callers : Returned(c) =>
        LET hint == req[c].model
            m == result[c].model
        IN /\ result[c].provider = "groq" => m = GROQ_MODEL
           /\ result[c].provider = "gemini" => m = GEMINI_MODEL
           /\ result[c].provider = "huggingface" => m = HF_MODEL
           /\ result[c].provider = "openai" => m = OPENAI_MODEL
           /\ result[c].provider = "together" =>
                 IF \/ ContainsIgnoreCase(<<"l","l","a","m","a">>, hint)
                    \/ ContainsIgnoreCase(<<"c","o","d","e">>, hint)
                 THEN m = hint
                 ELSE m = TOGETHER_DEFAULT_MODEL

\* together reported a hint that spells the word in capitals only
C18_Witness ==
    \E c \in Callers :
        /\ Returned(c)
        /\ result[c].provider = "together"
        /\ req[c].model = <<"m","y","/","C","O","D","E","-","7","b">>
        /\ result[c].model = req[c].model

\* --------------------------------------------------------------------------
\* C19: every adapter sends the request's max_tokens as the length limit when
\* it is a positive integer, and 2000 when it is None.
\* --------------------------------------------------------------------------
C19_MaxTokensOrDefault ==
    \A c \in Callers : sent[c] # NoSent =>
        /\ (req[c].max_tokens.set /\ req[c].max_tokens.val > 0) =>
              sent[c].max_tokens = req[c].max_tokens.val
        /\ ~req[c].max_tokens.set => sent[c].max_tokens = 2000

\* huggingface was asked for 3000 new tokens
C19_Witness ==
    \E c \in Callers :
        /\ Returned(c)
        /\ result[c].provider = "huggingface"
        /\ req[c].max_tokens = SomeInt(3000)
        /\ sent[c].max_tokens = 3000

\* --------------------------------------------------------------------------
\* C20: the gemini adapter sends one prompt string made of every turn in
\* conversation order, a system turn as 'Instructions: <content>' followed by
\* a blank line, any other turn as its content followed by a newline; a
\* system turn is thereby rendered differently from a user turn of the same
\* content.
\* --------------------------------------------------------------------------
RECURSIVE C20_Rendered(_)
C20_Rendered(msgs) ==
    IF msgs = <<>> THEN <<>>
    ELSE (IF Head(msgs).role = "system"
          THEN <<"I","n","s","t","r","u","c","t","i","o","n","s",":"," ">>
                 \o Head(msgs).content \o <<"\n","\n">>
          ELSE Head(msgs).content \o <<"\n">>)
         \o C20_Rendered(Tail(msgs))

C20_GeminiFlattens ==
    \A c \in Callers :
        (sent[c] # NoSent /\ Chain[idx[c]] = "gemini") =>
            /\ sent[c].prompt = C20_Rendered(req[c].messages)
            /\ sent[c].messages = <<>>
            /\ \A i \in 1..Len(req[c].messages) :
                  req[c].messages[i].role = "system" =>
                      sent[c].prompt #
                        C20_Rendered([req[c].messages EXCEPT ![i].role = "user"])

\* gemini answered a conversation of a user turn followed by a system turn
C20_Witness ==
    \E c \in Callers :
        /\ Returned(c)
        /\ result[c].provider = "gemini"
        /\ Len(req[c].messages) = 2
        /\ req[c].messages[1].role = "user"
        /\ req[c].messages[2].role = "system"
        /\ sent[c].prompt = <<"a","\n","I","n","s","t","r","u","c","t","i","o","n","s",":"," ","b","c","\n","\n">>

\* --------------------------------------------------------------------------
\* C12: no provider health is kept between calls.  Which providers a call
\* attempts follows from that call's credentials and outcomes alone: a
\* provider is attempted exactly when its credential is present and every
\* higher-priority provider was skipped or failed in this call -- also when
\* it failed in the previous call.
\* --------------------------------------------------------------------------
Reached(c, i) ==
    \A j \in 1..(i - 1) : trace[c][PriorityOrder[j]] \in {"skipped", "failed"}

C12_NoHealthState ==
    \A c \in Callers : Returned(c) =>
        \A i \in 1..Len(PriorityOrder) :
            LET p == PriorityOrder[i]
            IN /\ trace[c][p] \in {"failed", "ok"} <=> (CredPresent(p) /\ Reached(c, i))
               /\ ( /\ hist[p] = "failed"
                    /\ CredPresent(p)
                    /\ Reached(c, i) )
                  => attempts[c][p] = 1

\* groq failed in the previous call and has answered this one
C12_Witness ==
    \E c \in Callers :
        /\ Returned(c)
        /\ prev.valid
        /\ hist["groq"] = "failed"
        /\ trace[c]["groq"] = "ok"
        /\ result[c].provider = "groq"

\* --------------------------------------------------------------------------
\* C16: the credential gates read the environment in each call.  A provider
\* skipped in the previous call for want of a credential is attempted in this
\* call once the credential is set, and a provider attempted in the previous
\* call is skipped in this one once its credential is removed.
\* --------------------------------------------------------------------------
C16_GatesReadEnvironEachCall ==
    \A c \in Callers : \A i \in 1..Len(PriorityOrder) :
        LET p == PriorityOrder[i]
        IN /\ trace[c][p] = "skipped" => ~CredPresent(p)
           /\ trace[c][p] \in {"failed", "ok"} => CredPresent(p)
           /\ (InAdapter(c) /\ Chain[idx[c]] = p) =>
                 /\ CredPresent(p)
                 /\ api_key[c] = GetKey(p, environ)
           /\ (Returned(c) /\ Reached(c, i)) =>
                 /\ (hist[p] = "skipped" /\ CredPresent(p)) =>
                       trace[c][p] \in {"failed", "ok"}
                 /\ (hist[p] \in {"failed", "ok"} /\ ~CredPresent(p)) =>
                       trace[c][p] = "skipped"

\* between two calls groq's credential was removed and gemini's was set
C16_Witness ==
    \E c \in Callers :
        /\ Returned(c)
        /\ prev.valid
        /\ hist["groq"] = "failed"
        /\ trace[c]["groq"] = "skipped"
        /\ hist["gemini"] = "skipped"
        /\ trace[c]["gemini"] = "ok"

\* --------------------------------------------------------------------------
\* C13: calls running at the same time on one gateway each walk the chain
\* from the first provider on their own, and each returns what it would have
\* returned alone with the same credentials and the same provider outcomes.
\* --------------------------------------------------------------------------
C13_Alone(c) ==
    IF \E p \in Providers : trace[c][p] = "ok"
    THEN LET p == CHOOSE q \in Providers : trace[c][q] = "ok"
         IN AdapterResponse(p, Extract(p, reply[c]), req[c].model)
    ELSE NoProviderResponse

C13_CallsIndependent ==
    \A c \in Callers : Returned(c) =>
        /\ \A i \in 1..Len(PriorityOrder) :
              /\ trace[c][PriorityOrder[i]] \in {"failed", "ok"}
                    <=> (CredPresent(PriorityOrder[i]) /\ Reached(c, i))
              /\ trace[c][PriorityOrder[i]] = "skipped"
                    <=> (~CredPresent(PriorityOrder[i]) /\ Reached(c, i))
        /\ Cardinality({p \in Providers : trace[c][p] = "ok"}) <= 1
        /\ result[c] = C13_Alone(c)

\* two overlapping calls: groq answered the first, and the second after groq
\* had failed it was answered by together
C13_Witness ==
    /\ Returned(1) /\ Returned(2)
    /\ start_requests[1] = 0 /\ start_requests[2] = 0
    /\ result[1].provider = "groq"
    /\ trace[2]["groq"] = "failed"
    /\ result[2].provider = "together"
    /\ Content(result[1]) # Content(result[2])

\* --------------------------------------------------------------------------
\* C14: the increment of total_requests is a read followed by a write with no
\* lock: whenever the counter changes, a caller stores one more than the
\* value it read in an earlier step of its own, whatever the counter has
\* become since.  Two successful calls running together can thus leave the
\* counter grown by 1 instead of 2.
\* --------------------------------------------------------------------------
C14_ReadModifyWrite ==
    [][ total_requests' # total_requests =>
          \E c \in Callers :
              /\ pc[c] = "incr_write"
              /\ pc'[c] # "incr_write"
              /\ total_requests' = tmp[c] + 1
              /\ tmp[c] <= total_requests
      ]_vars

\* both calls were answered by groq at the first attempt, and the counter,
\* which was 0 when each of them started, is 1
C14_Witness ==
    /\ Returned(1) /\ Returned(2)
    /\ start_requests[1] = 0 /\ start_requests[2] = 0
    /\ result[1].provider = "groq"
    /\ result[2].provider = "groq"
    /\ total_requests = 1

\* --------------------------------------------------------------------------
\* C21: a credential variable set to the empty string counts as absent.  A
\* provider is skipped exactly when none of its variables holds a non-empty
\* value and attempted exactly when one does; the key handed to the gemini
\* adapter is GEMINI_API_KEY when that is non-empty and GOOGLE_API_KEY
\* otherwise, the key handed to the huggingface adapter is HUGGINGFACE_API_KEY
\* when that is non-empty and HF_API_KEY otherwise.
\* --------------------------------------------------------------------------
C21_Usable(v) == environ[v] # None /\ environ[v] # Str("")

C21_VarsOf(p) ==
    CASE p = "groq" -> <<"GROQ_API_KEY">>
      [] p = "together" -> <<"TOGETHER_API_KEY">>
      [] p = "gemini" -> <<"GEMINI_API_KEY", "GOOGLE_API_KEY">>
      [] p = "huggingface" -> <<"HUGGINGFACE_API_KEY", "HF_API_KEY">>
      [] p = "openai" -> <<"OPENAI_API_KEY">>

C21_FirstUsable(p) ==
    LET vs == C21_VarsOf(p)
    IN IF C21_Usable(vs[1]) THEN environ[vs[1]] ELSE environ[vs[Len(vs)]]

C21_EmptyIsAbsent ==
    \A c \in SeqCallers : \A p \in Providers :
        /\ trace[c][p] = "skipped" =>
              \A i \in 1..Len(C21_VarsOf(p)) : ~C21_Usable(C21_VarsOf(p)[i])
        /\ (trace[c][p] \in {"failed", "ok"} \/ (InAdapter(c) /\ Chain[idx[c]] = p)) =>
              \E i \in 1..Len(C21_VarsOf(p)) : C21_Usable(C21_VarsOf(p)[i])
        /\ (InAdapter(c) /\ Chain[idx[c]] = p) => api_key[c] = C21_FirstUsable(p)

\* GEMINI_API_KEY is "" and GOOGLE_API_KEY holds the key the gemini adapter is
\* running with, after groq was skipped for an empty GROQ_API_KEY, and
\* huggingface's turn comes with HUGGINGFACE_API_KEY empty too
C21_Witness ==
    \E c \in SeqCallers :
        /\ environ["GROQ_API_KEY"] = Str("")
        /\ environ["GEMINI_API_KEY"] = Str("")
        /\ environ["GOOGLE_API_KEY"] = Str(KeyOf["GOOGLE_API_KEY"])
        /\ environ["HUGGINGFACE_API_KEY"] = Str("")
        /\ environ["HF_API_KEY"] = Str("")
        /\ trace[c]["groq"] = "skipped"
        /\ trace[c]["gemini"] = "failed"
        /\ trace[c]["huggingface"] = "skipped"
        /\ pc[c] = "returned"
        /\ attempts[c]["gemini"] = 1

\* --------------------------------------------------------------------------
\* C22: a completion call whose provider calls each return or raise ends with
\* a returned response, and it makes at most five adapter invocations on the
\* way: the chain is walked once, without loop or retry.
\* --------------------------------------------------------------------------
C22_Invocations(c) ==
    attempts[c]["groq"] + attempts[c]["together"] + attempts[c]["gemini"]
        + attempts[c]["huggingface"] + attempts[c]["openai"]

C22_Terminates ==
    /\ \A c \in SeqCallers : (pc[c] = "gate") ~> (pc[c] = "returned" /\ result[c] # NoResult)
    /\ [](\A c \in SeqCallers : C22_Invocations(c) <= 5)

\* the longest walk: five adapters invoked, all of them failed, the sentinel returned
C22_Witness ==
    \E c \in SeqCallers :
        /\ pc[c] = "returned"
        /\ C22_Invocations(c) = 5
        /\ \A p \in Providers : trace[c][p] = "failed"
        /\ result[c] = NoProviderResponse

\* --------------------------------------------------------------------------
\* C23: get_llm_gateway hands the same LLMGateway object to every caller, also
\* when the first calls run concurrently: at most one object is ever
\* constructed, and any two consumers hold the same object (and so the same
\* total_requests counter).
\* --------------------------------------------------------------------------
C23_OneInstance ==
    /\ Len(instance_requests) <= 1
    /\ \A c \in Callers : \A e \in Callers :
          (held[c] # 0 /\ held[e] # 0) => held[c] = held[e]


C25_TemplateWithoutGateway ==
    [][(llm_gateway = 0 /\ gen_seen'.calls = gen_seen.calls + 1) =>
          /\ generation_history' = Append(generation_history, gen_result')
          /\ gen_result'.success
          /\ gen_result'.provider = "built-in"
          /\ gen_result'.model = BUILT_IN_MODEL
          /\ gen_result'.code.origin = "template"
          /\ gen_result'.problem_statement \in GenProblems
          /\ gen_result'.language \in SUPPORTED_LANGUAGES
          /\ (gen_seen'.requested.set
                /\ Lower(gen_seen'.requested.val) \notin SUPPORTED_LANGUAGES)
             => gen_result'.language = PYTHON]_vars

\* the second call of a generator without gateway asked for cobol and got python
C25_Witness ==
    /\ llm_gateway = 0
    /\ Len(generation_history) = 2
    /\ gen_seen.calls = 2
    /\ gen_seen.requested = Language(<<"c","o","b","o","l">>)
    /\ gen_result.language = PYTHON
    /\ gen_result.provider = "built-in"
    /\ generation_history[2] = gen_result


\* completion calls the running or the last generate_trace call has made
C26_Calls ==
    IF viz_pc \in {"first", "retry"}
    THEN viz_frame.calls + (IF \E c \in SeqCallers : pc[c] # "idle" THEN 1 ELSE 0)
    ELSE viz_seen.calls

\* C26: one generate_trace invocation makes at most two completion calls; the
\* second is made only when neither the stripped reply nor its outermost braces
\* held JSON and the code contains 'class' or 'def'; the invocation never
\* raises, each of its ends being a returned trace.
C26_AtMostOneRetry ==
    /\ C26_Calls <= 2
    /\ viz_pc # "escaped"
    /\ (viz_pc = "retry" \/ viz_seen.calls = 2) =>
          /\ viz_seen.retried
          /\ viz_seen.first = "none"
          /\ StaticCode(viz_seen.code)
    /\ (viz_seen.retried /\ viz_pc = "idle") => viz_seen.calls = 2
    /\ (viz_pc = "idle" /\ viz_seen.traces > 0) =>
          /\ viz_result.kind \in {"no gateway", "json", "static", "error"}
          /\ viz_result.kind = "no gateway" <=> viz_seen.calls = 0
          /\ viz_seen.first \in {"whole", "braces"} =>
                (viz_seen.calls = 1 /\ viz_result.kind = "json")

\* a call whose first reply held no JSON retried once for code holding a
\* definition and ended with the static trace
C26_Witness ==
    /\ viz_pc = "idle"
    /\ viz_seen.calls = 2
    /\ viz_seen.retried
    /\ viz_seen.first = "none"
    /\ viz_result.kind = "static"
    /\ viz_result.visualization_type = "tree"


\* C27: active_conversations is the number of conversations with
\* status 'created' and never negative, total_conversations the number stored.
C27_ActiveCountsCreated ==
    /\ stats.active_conversations =
          Cardinality({ i \in DOMAIN conversations : conversations[i].status = "created" })
    /\ stats.active_conversations >= 0
    /\ stats.total_conversations = Len(conversations)

\* rows of a table of sessions that belong to a user name
RowsOf(rows, username) == { i \in DOMAIN rows : rows[i].username = username }

\* C28: after block_user(id) the table active_sessions holds no row of
\* the blocked user, whoever inserted the row.
C28_BlockRemovesSession ==
    [][\A id \in DOMAIN users :
          BlockUser(id) =>
             \A i \in DOMAIN active_sessions' :
                /\ active_sessions'[i].username # users[id].username
                /\ active_sessions'[i].user_id # id]_vars

\* C29: active_sessions never holds two rows of one username; add_session
\* leaves exactly the row it inserted for the username, remove_session none.
C29_OneSessionPerUser ==
    [][/\ \A u \in UserNames : Cardinality(RowsOf(active_sessions', u)) <= 1
       /\ \A u \in UserNames :
             RemoveSession(u) => RowsOf(active_sessions', u) = {}
       /\ \A u \in UserNames : \A id \in UserIds \cup {NullId} :
             AddSession(id, u) =>
                /\ Cardinality(RowsOf(active_sessions', u)) = 1
                /\ active_sessions'[Len(active_sessions')] = [user_id |-> id, username |-> u]
                /\ \A w \in UserNames \ {u} :
                      Cardinality(RowsOf(active_sessions', w)) =
                      Cardinality(RowsOf(active_sessions, w))]_vars

\* two users hold a session each, the second one inserted with a user id after
\* the first one's, and a blocked user is among them
C29_Witness ==
    /\ Len(active_sessions) = 2
    /\ active_sessions[1].username = "bob"
    /\ active_sessions[2] = [user_id |-> 2, username |-> "ann"]
    /\ \E i \in DOMAIN users : users[i].is_blocked

====
